---- MODULE Spec2Model ----
(***************************************************************************)
(* DonationService (service module) and the auth module of the donation    *)
(* tracker, as a state machine over the browser's localStorage tables.     *)
(*                                                                         *)
(* Values.  Text is a sequence of one-character strings.  A JavaScript     *)
(* value that may be null / undefined / a missing property is a set with   *)
(* at most one element: {} is null (the code never tells null, undefined   *)
(* and a missing property apart), {v} is the value v.  An integer that may *)
(* be NaN is such a set too: JSON.stringify writes NaN as null, and the    *)
(* code reads both only through `x || 0`.                                  *)
(***************************************************************************)
EXTENDS Integers, Sequences, FiniteSets, TLC

VARIABLES
    records,   \* localStorage dms_donation_records: master table, newest first
    food,      \* localStorage dms_food_donations
    clothes,   \* localStorage dms_clothes_donations
    money,     \* localStorage dms_money_donations
    users,     \* localStorage dms_users
    session,   \* localStorage dms_session: {} or {session object}
    thanks,    \* sessionStorage dms_thanks: {} or {flag object}
    genCount,  \* number of donation ids generated so far
    last,      \* the last call: its name, what it returned, what it threw,
               \* the donationSuccess events it dispatched
    tab,       \* a second browser tab inside createPendingMoney: its position
               \* and its local variables
    notifs,    \* localStorage dms_notifications, newest first
    sessionStorageOk, \* FALSE when sessionStorage.setItem throws (quota, disabled)
    ui         \* the Alpine stores of the page: their fields

vars == <<records, food, clothes, money, users, session, thanks, genCount, last, tab,
          notifs, sessionStorageOk, ui>>

(***************************************************************************)
(* Bounds of the model.                                                    *)
(***************************************************************************)
MaxDonations == 2   \* donations created in one run of Spec
MaxFixture == 3     \* donations created in one run of SpecInventory
MaxUpdateDonations == 3  \* donations created in one run of SpecUpdate
MaxNotifications == 3  \* notifications written in one run of SpecNotifications
MaxQuotaDonations == 2  \* donations created in one run of SpecQuota
MaxRaceDonations == 2  \* donations started in one run of SpecRace
MaxConsoleDonations == 1
MaxMoneyDonations == 2
MaxFoodDonations == 2
MaxDashboardDonations == 1
MaxDashboardNotifications == 2
MaxMailboxDonations == 2
MaxMailboxNotifications == 2
MaxFormsDonations == 2
MaxSuspended == 2
MaxTabDonations == 2  \* donations started in one run of SpecTabs

(***************************************************************************)
(* Values and inputs.                                                      *)
(***************************************************************************)
Null == {}
Some(v) == {v}
Get(o) == CHOOSE v \in o : TRUE

\* new Date().toISOString(): the service stores it and never reads it back.
ISONow == "iso"

Range(s) == {s[i] : i \in 1..Len(s)}

\* Array.prototype.filter
Filter(s, P(_)) == SelectSeq(s, P)

\* index of the first match, 0 when nothing matches
FindIndex(s, P(_)) ==
    LET I == {i \in 1..Len(s) : P(s[i])}
    IN  IF I = {} THEN 0 ELSE CHOOSE i \in I : \A j \in I : i <= j

\* Array.prototype.find: {} when nothing matches, else {first match}
Find(s, P(_)) ==
    LET i == FindIndex(s, P) IN IF i = 0 THEN Null ELSE Some(s[i])

\* Array.prototype.some
Exists(s, P(_)) == \E i \in 1..Len(s) : P(s[i])

\* Array.prototype.push in the place of unshift
Push(s, x) == s \o <<x>>

\* Array.prototype.unshift
Unshift(s, x) == <<x>> \o s

IsSpace(c) == c = " "
IsDigit(c) == c \in {"0", "1", "2", "3", "4", "5", "6", "7", "8", "9"}
DigitVal(c) ==
    CASE c = "0" -> 0 [] c = "1" -> 1 [] c = "2" -> 2 [] c = "3" -> 3
      [] c = "4" -> 4 [] c = "5" -> 5 [] c = "6" -> 6 [] c = "7" -> 7
      [] c = "8" -> 8 [] c = "9" -> 9

RECURSIVE TrimStart(_)
TrimStart(s) == IF s # <<>> /\ IsSpace(Head(s)) THEN TrimStart(Tail(s)) ELSE s

RECURSIVE TrimEnd(_)
TrimEnd(s) ==
    IF s # <<>> /\ IsSpace(s[Len(s)]) THEN TrimEnd(SubSeq(s, 1, Len(s) - 1)) ELSE s

\* String.prototype.trim
Trim(s) == TrimEnd(TrimStart(s))

\* the value of the longest prefix of digits, {} when s starts with no digit
RECURSIVE DigitsValue(_, _, _)
DigitsValue(s, acc, seen) ==
    IF s # <<>> /\ IsDigit(Head(s))
    THEN DigitsValue(Tail(s), acc * 10 + DigitVal(Head(s)), TRUE)
    ELSE IF seen THEN Some(acc) ELSE Null

\* parseInt(text, 10): leading blanks, a sign, then digits up to the first
\* other character; NaN ({}) when there is no digit.
parseInt(text) ==
    LET s == TrimStart(text)
        neg == s # <<>> /\ Head(s) = "-"
        body == IF s # <<>> /\ Head(s) \in {"-", "+"} THEN Tail(s) ELSE s
        v == DigitsValue(body, 0, FALSE)
    IN  IF v = Null THEN Null ELSE IF neg THEN Some(0 - Get(v)) ELSE v

\* x || 0 on a number that may be null/NaN
OrZero(n) == IF n = Null THEN 0 ELSE Get(n)

(***************************************************************************)
(* Auth module: helpers.                                                   *)
(***************************************************************************)
UpperCase == <<"A", "B", "C", "D", "E", "F", "G", "H", "I", "J", "K", "L", "M",
               "N", "O", "P", "Q", "R", "S", "T", "U", "V", "W", "X", "Y", "Z">>
LowerCase == <<"a", "b", "c", "d", "e", "f", "g", "h", "i", "j", "k", "l", "m",
               "n", "o", "p", "q", "r", "s", "t", "u", "v", "w", "x", "y", "z">>

LowerChar(c) ==
    IF \E i \in 1..Len(UpperCase) : UpperCase[i] = c
    THEN LowerCase[CHOOSE i \in 1..Len(UpperCase) : UpperCase[i] = c]
    ELSE c

\* String.prototype.toLowerCase
toLowerCase(s) == [i \in 1..Len(s) |-> LowerChar(s[i])]

\* String.prototype.charCodeAt, for the characters the inputs use
charCode(c) ==
    IF \E i \in 1..Len(UpperCase) : UpperCase[i] = c
    THEN 64 + (CHOOSE i \in 1..Len(UpperCase) : UpperCase[i] = c)
    ELSE IF \E i \in 1..Len(LowerCase) : LowerCase[i] = c
    THEN 96 + (CHOOSE i \in 1..Len(LowerCase) : LowerCase[i] = c)
    ELSE IF IsDigit(c) THEN 48 + DigitVal(c)
    ELSE CASE c = " " -> 32 [] c = "@" -> 64 [] c = "." -> 46
           [] c = "-" -> 45 [] c = "+" -> 43 [] OTHER -> 63

\* A 32-bit word is kept as <<high 16 bits, low 16 bits>>: the checker's
\* integers are 32 bits wide and cannot hold the unsigned value.
Half == 65536

\* bitwise exclusive or of two unsigned numbers
RECURSIVE XorU(_, _)
XorU(a, b) ==
    IF a = 0 THEN b
    ELSE IF b = 0 THEN a
    ELSE (((a % 2) + (b % 2)) % 2) + 2 * XorU(a \div 2, b \div 2)

\* ((hash << 5) + hash) ^ code: the shift and the xor work on 32-bit words,
\* so the result is 33 * hash modulo 2^32, xor the character code
HashStep(hash, code) ==
    LET lo == 33 * hash[2]
        hi == 33 * hash[1] + (lo \div Half)
    IN  <<XorU(hi % Half, code \div Half), XorU(lo % Half, code % Half)>>

RECURSIVE HashFrom(_, _)
HashFrom(hash, pwd) ==
    IF pwd = <<>> THEN hash
    ELSE HashFrom(HashStep(hash, charCode(Head(pwd))), Tail(pwd))

\* _hashPassword: the unsigned 32-bit word (hash >>> 0) whose hexadecimal
\* text the code stores; toString(16) is one-to-one on it
_hashPassword(pwd) == HashFrom(<<0, 5381>>, pwd)

ADMIN_SEED_ID == <<"u_admin_seed", 0>>
ADMIN_EMAIL == <<"a", "d", "m", "i", "n", "@", "d", "o", "n", "a", "t", "e",
                 "h", "u", "b", ".", "c", "o", "m">>
ADMIN_PASSWORD == <<"A", "d", "m", "i", "n", "@", "1", "2", "3">>

\* the account _seedAdminIfNeeded pushes
SeedAdmin ==
    [id |-> ADMIN_SEED_ID, email |-> ADMIN_EMAIL,
     password |-> _hashPassword(ADMIN_PASSWORD), role |-> "admin"]

(***************************************************************************)
(* Service module.  Every operation is an operator from the stored world   *)
(* W (the tables, the session, the thanks flag, the events dispatched, the *)
(* ids generated) to [W: the world after, ret: what it returns, err: ""    *)
(* or the name of the error it throws].                                    *)
(***************************************************************************)
RECORDS_KEY == "records"
FOOD_KEY == "food"
CLOTHES_KEY == "clothes"
MONEY_KEY == "money"

NOTIF_KEY == "notifs"
VALID_AGES == <<10, 19, 20, 30, 45>>

World ==
    [records |-> records, food |-> food, clothes |-> clothes, money |-> money,
     users |-> users, session |-> session, thanks |-> thanks, genCount |-> genCount,
     notifs |-> notifs, sessionStorageOk |-> sessionStorageOk, ui |-> ui,
     events |-> <<>>]   \* the donationSuccess events this call has dispatched

Returns(W, ret) == [W |-> W, ret |-> ret, err |-> ""]
Throws(W, error) == [W |-> W, ret |-> Null, err |-> error]

\* _loadTable / _saveTable: the whole table is read, and written back whole
_loadTable(W, key) == W[key]
_saveTable(W, key, rows) == [W EXCEPT ![key] = rows]
_load(W) == _loadTable(W, RECORDS_KEY)
_save(W, rows) == _saveTable(W, RECORDS_KEY, rows)

\* _genId: prefix, time and random suffix; the n-th id generated is <<prefix, n>>
\* _genId giving the same id at every call
_genIdConstant(prefix, n) == <<prefix, 1>>

_genId(prefix, n) == <<prefix, n>>

getRecordById(W, id) == Find(_load(W), LAMBDA r : r.id = id)

\* _verifyCommit that reads the master table only
_verifyCommitMasterOnly(W, donationId, subTableKey) ==
    getRecordById(W, donationId) # Null

_verifyCommit(W, donationId, subTableKey) ==
    LET masterExists == getRecordById(W, donationId) # Null
        subExists == Exists(_loadTable(W, subTableKey),
                            LAMBDA r : r.donation_id = donationId)
    IN  masterExists /\ subExists

\* try { sessionStorage.setItem(...) } catch (e) {}
_setThanksFlag(W, masterRecord) ==
    IF W.sessionStorageOk
    THEN [W EXCEPT !.thanks = Some([committed |-> TRUE, donationId |-> masterRecord.id,
                                    type |-> masterRecord.type, committedAt |-> ISONow])]
    ELSE W

\* an event is kept by the id and type of the record it carries
_dispatchSuccess(W, record) ==
    [W EXCEPT !.events = Append(@, [id |-> record.id, type |-> record.type])]

\* the pending master row the three create paths build
NewMaster(id, userId, type) ==
    [id |-> id, userId |-> userId, type |-> type, createdAt |-> ISONow,
     approved |-> Null, donation_status |-> "pending",
     approvedAt |-> Null, approvedBy |-> Null,
     rejectedAt |-> Null, rejectedBy |-> Null, rejectionReason |-> Null]

\* saveFoodRecord with the two quantities stored in each other's column
saveFoodRecordSwapped(W, userId, rice, vegetables) ==
    LET riceQty == parseInt(rice)
        vegQty == parseInt(vegetables)
        record == NewMaster(_genId("dr", W.genCount + 1), userId, "food")
        W1 == _save([W EXCEPT !.genCount = @ + 1], Unshift(_load(W), record))
        W2 == _saveTable([W1 EXCEPT !.genCount = @ + 1], FOOD_KEY,
                  Unshift(_loadTable(W1, FOOD_KEY),
                          [id |-> _genId("fd", W1.genCount + 1),
                           donation_id |-> record.id,
                           rice_qty |-> vegQty, veg_qty |-> riceQty]))
        W3 == IF _verifyCommit(W2, record.id, FOOD_KEY)
              THEN _setThanksFlag(W2, record) ELSE W2
    IN  Returns(_dispatchSuccess(W3, record), Some(record))

\* saveFoodRecord in which a failed write of the thanks flag is not caught
saveFoodRecordFlagFatal(W, userId, rice, vegetables) ==
    LET riceQty == parseInt(rice)
        vegQty == parseInt(vegetables)
        record == NewMaster(_genId("dr", W.genCount + 1), userId, "food")
        W1 == _save([W EXCEPT !.genCount = @ + 1], Unshift(_load(W), record))
        W2 == _saveTable([W1 EXCEPT !.genCount = @ + 1], FOOD_KEY,
                  Unshift(_loadTable(W1, FOOD_KEY),
                          [id |-> _genId("fd", W1.genCount + 1),
                           donation_id |-> record.id,
                           rice_qty |-> riceQty, veg_qty |-> vegQty]))
        W3 == IF _verifyCommit(W2, record.id, FOOD_KEY)
              THEN _setThanksFlag(W2, record) ELSE W2
    IN  IF _verifyCommit(W2, record.id, FOOD_KEY) /\ ~W.sessionStorageOk
        THEN Throws(W2, "Error")
        ELSE Returns(_dispatchSuccess(W3, record), Some(record))

\* saveFoodRecord that refuses a negative quantity before any write
saveFoodRecordNonNegative(W, userId, rice, vegetables) ==
    LET riceQty == parseInt(rice)
        vegQty == parseInt(vegetables)
        record == NewMaster(_genId("dr", W.genCount + 1), userId, "food")
        W1 == _save([W EXCEPT !.genCount = @ + 1], Unshift(_load(W), record))
        W2 == _saveTable([W1 EXCEPT !.genCount = @ + 1], FOOD_KEY,
                  Unshift(_loadTable(W1, FOOD_KEY),
                          [id |-> _genId("fd", W1.genCount + 1),
                           donation_id |-> record.id,
                           rice_qty |-> riceQty, veg_qty |-> vegQty]))
        W3 == IF _verifyCommit(W2, record.id, FOOD_KEY)
              THEN _setThanksFlag(W2, record) ELSE W2
    IN  IF OrZero(riceQty) < 0 \/ OrZero(vegQty) < 0 THEN Throws(W, "RangeError")
        ELSE Returns(_dispatchSuccess(W3, record), Some(record))

saveFoodRecord(W, userId, rice, vegetables) ==
    LET riceQty == parseInt(rice)
        vegQty == parseInt(vegetables)
        record == NewMaster(_genId("dr", W.genCount + 1), userId, "food")
        W1 == _save([W EXCEPT !.genCount = @ + 1], Unshift(_load(W), record))
        W2 == _saveTable([W1 EXCEPT !.genCount = @ + 1], FOOD_KEY,
                  Unshift(_loadTable(W1, FOOD_KEY),
                          [id |-> _genId("fd", W1.genCount + 1),
                           donation_id |-> record.id,
                           rice_qty |-> riceQty, veg_qty |-> vegQty]))
        W3 == IF _verifyCommit(W2, record.id, FOOD_KEY)
              THEN _setThanksFlag(W2, record) ELSE W2
    IN  Returns(_dispatchSuccess(W3, record), Some(record))

includes(arr, v) == v # Null /\ \E i \in 1..Len(arr) : arr[i] = Get(v)

\* saveApparelRecord checking the age only after the master row is written
saveApparelRecordLateCheck(W, userId, ageGroup) ==
    LET targetAge == parseInt(ageGroup)
        record == NewMaster(_genId("dr", W.genCount + 1), userId, "apparel")
        W1 == _save([W EXCEPT !.genCount = @ + 1], Unshift(_load(W), record))
        W2 == _saveTable([W1 EXCEPT !.genCount = @ + 1], CLOTHES_KEY,
                  Unshift(_loadTable(W1, CLOTHES_KEY),
                          [id |-> _genId("cd", W1.genCount + 1),
                           donation_id |-> record.id,
                           target_age |-> Get(targetAge)]))
        W3 == IF _verifyCommit(W2, record.id, CLOTHES_KEY)
              THEN _setThanksFlag(W2, record) ELSE W2
    IN  IF ~includes(VALID_AGES, targetAge) THEN Throws(W1, "RangeError")
        ELSE Returns(_dispatchSuccess(W3, record), Some(record))

saveApparelRecord(W, userId, ageGroup) ==
    LET targetAge == parseInt(ageGroup)
        record == NewMaster(_genId("dr", W.genCount + 1), userId, "apparel")
        W1 == _save([W EXCEPT !.genCount = @ + 1], Unshift(_load(W), record))
        W2 == _saveTable([W1 EXCEPT !.genCount = @ + 1], CLOTHES_KEY,
                  Unshift(_loadTable(W1, CLOTHES_KEY),
                          [id |-> _genId("cd", W1.genCount + 1),
                           donation_id |-> record.id,
                           target_age |-> Get(targetAge)]))
        W3 == IF _verifyCommit(W2, record.id, CLOTHES_KEY)
              THEN _setThanksFlag(W2, record) ELSE W2
    IN  IF ~includes(VALID_AGES, targetAge) THEN Throws(W, "RangeError")
        ELSE Returns(_dispatchSuccess(W3, record), Some(record))

\* 'TXN-' + Date.now(): one reference per call
TransactionId(n) == <<"TXN", n>>

\* createPendingMoney that stores the money row as completed
createPendingMoneyConfirmed(W, userId, qrPayload) ==
    LET transactionId == TransactionId(W.genCount + 1)
        record == NewMaster(_genId("dr", W.genCount + 1), userId, "money")
        W1 == _save([W EXCEPT !.genCount = @ + 1], Unshift(_load(W), record))
        W2 == _saveTable([W1 EXCEPT !.genCount = @ + 1], MONEY_KEY,
                  Unshift(_loadTable(W1, MONEY_KEY),
                          [id |-> _genId("md", W1.genCount + 1),
                           donation_id |-> record.id,
                           transaction_id |-> transactionId,
                           qr_payload |-> qrPayload, status |-> TRUE]))
    IN  Returns(W2, Some([record |-> record, transactionId |-> transactionId]))

createPendingMoney(W, userId, qrPayload) ==
    LET transactionId == TransactionId(W.genCount + 1)
        record == NewMaster(_genId("dr", W.genCount + 1), userId, "money")
        W1 == _save([W EXCEPT !.genCount = @ + 1], Unshift(_load(W), record))
        W2 == _saveTable([W1 EXCEPT !.genCount = @ + 1], MONEY_KEY,
                  Unshift(_loadTable(W1, MONEY_KEY),
                          [id |-> _genId("md", W1.genCount + 1),
                           donation_id |-> record.id,
                           transaction_id |-> transactionId,
                           qr_payload |-> qrPayload, status |-> FALSE]))
    IN  Returns(W2, Some([record |-> record, transactionId |-> transactionId]))

\* rows with the first row matching P changed by F (find, then assign a field)
UpdateFirst(rows, P(_), F(_)) ==
    LET i == FindIndex(rows, P)
    IN  IF i = 0 THEN rows ELSE [rows EXCEPT ![i] = F(rows[i])]

\* completeMoney that dispatches the event only after a verified commit
completeMoneyVerifiedOnly(W, donationId) ==
    LET moneyRows == _loadTable(W, MONEY_KEY)
        row == Find(moneyRows, LAMBDA r : r.donation_id = donationId)
        W1 == IF row # Null
              THEN _saveTable(W, MONEY_KEY,
                       UpdateFirst(moneyRows, LAMBDA r : r.donation_id = donationId,
                                   LAMBDA r : [r EXCEPT !.status = TRUE]))
              ELSE W
        record == getRecordById(W1, donationId)
    IN  IF record # Null /\ _verifyCommit(W1, donationId, MONEY_KEY)
        THEN Returns(_dispatchSuccess(_setThanksFlag(W1, Get(record)), Get(record)), record)
        ELSE Returns(W1, record)

\* completeMoney without the thanks flag
completeMoneyNoFlag(W, donationId) ==
    LET moneyRows == _loadTable(W, MONEY_KEY)
        row == Find(moneyRows, LAMBDA r : r.donation_id = donationId)
        W1 == IF row # Null
              THEN _saveTable(W, MONEY_KEY,
                       UpdateFirst(moneyRows, LAMBDA r : r.donation_id = donationId,
                                   LAMBDA r : [r EXCEPT !.status = TRUE]))
              ELSE W
        record == getRecordById(W1, donationId)
    IN  IF record # Null THEN Returns(_dispatchSuccess(W1, Get(record)), record)
        ELSE Returns(W1, record)

completeMoney(W, donationId) ==
    LET moneyRows == _loadTable(W, MONEY_KEY)
        row == Find(moneyRows, LAMBDA r : r.donation_id = donationId)
        W1 == IF row # Null
              THEN _saveTable(W, MONEY_KEY,
                       UpdateFirst(moneyRows, LAMBDA r : r.donation_id = donationId,
                                   LAMBDA r : [r EXCEPT !.status = TRUE]))
              ELSE W
        record == getRecordById(W1, donationId)
        W2 == IF _verifyCommit(W1, donationId, MONEY_KEY)
              THEN _setThanksFlag(W1, Get(record)) ELSE W1
    IN  IF record # Null THEN Returns(_dispatchSuccess(W2, Get(record)), record)
        ELSE Returns(W1, record)

\* cancelPendingMoney that forgets the Money_Donations row
cancelPendingMoneyMasterOnly(W, donationId) ==
    Returns(_save(W, Filter(_load(W), LAMBDA r : r.id # donationId)), Null)

\* cancelPendingMoney that spares a completed donation
cancelPendingMoneyPendingOnly(W, donationId) ==
    LET W1 == _save(W, Filter(_load(W), LAMBDA r : r.id # donationId))
        W2 == _saveTable(W1, MONEY_KEY,
                  Filter(_loadTable(W1, MONEY_KEY),
                         LAMBDA r : r.donation_id # donationId))
    IN  IF Exists(_loadTable(W, MONEY_KEY),
                  LAMBDA r : r.donation_id = donationId /\ r.status)
        THEN Returns(W, Null)
        ELSE Returns(W2, Null)

cancelPendingMoney(W, donationId) ==
    LET W1 == _save(W, Filter(_load(W), LAMBDA r : r.id # donationId))
    IN  Returns(_saveTable(W1, MONEY_KEY,
                    Filter(_loadTable(W1, MONEY_KEY),
                           LAMBDA r : r.donation_id # donationId)), Null)

\* saveMoneyRecord that stops after the first step
saveMoneyRecordPendingOnly(W, userId, qrPayload) ==
    createPendingMoney(W, userId, qrPayload)

saveMoneyRecord(W, userId, qrPayload) ==
    LET created == createPendingMoney(W, userId, qrPayload)
        completed == completeMoney(created.W, Get(created.ret).record.id)
    IN  Returns(completed.W, created.ret)

\* getRecordsByUser without its filter
getRecordsByUserUnfiltered(W, userId) == _load(W)

getRecordsByUser(W, userId) == Filter(_load(W), LAMBDA r : r.userId = userId)
getAllRecords(W) == _load(W)
getFoodByDonationId(W, donationId) ==
    Find(_loadTable(W, FOOD_KEY), LAMBDA r : r.donation_id = donationId)
getClothesByDonationId(W, donationId) ==
    Find(_loadTable(W, CLOTHES_KEY), LAMBDA r : r.donation_id = donationId)
getMoneyByDonationId(W, donationId) ==
    Find(_loadTable(W, MONEY_KEY), LAMBDA r : r.donation_id = donationId)

\* a guard that asks for a session and not for its role
HasSession(s) == s # Null

\* the authorization guard of approveRecord and rejectRecord
IsAdminSession(s) == s # Null /\ Get(s).role = "admin"

\* approveRecord that throws on an id without master row
approveRecordStrict(W, donationId) ==
    LET sess == W.session
        rows == _load(W)
        i == FindIndex(rows, LAMBDA r : r.id = donationId)
        row == [rows[i] EXCEPT !.approved = Some(TRUE),
                               !.approvedAt = Some(ISONow),
                               !.approvedBy = Some(Get(sess).userId),
                               !.donation_status = "approved",
                               !.rejectedAt = Null,
                               !.rejectedBy = Null]
    IN  IF ~IsAdminSession(sess) THEN Throws(W, "Error")
        ELSE IF i = 0 THEN Throws(W, "Error")
        ELSE Returns(_save(W, [rows EXCEPT ![i] = row]), Some(row))

\* approveRecord that returns an approved row to pending
approveRecordToggle(W, donationId) ==
    LET sess == W.session
        rows == _load(W)
        i == FindIndex(rows, LAMBDA r : r.id = donationId)
        row == IF rows[i].approved = Some(TRUE)
               THEN [rows[i] EXCEPT !.approved = Null,
                                    !.approvedAt = Null,
                                    !.approvedBy = Null,
                                    !.donation_status = "pending"]
               ELSE [rows[i] EXCEPT !.approved = Some(TRUE),
                                    !.approvedAt = Some(ISONow),
                                    !.approvedBy = Some(Get(sess).userId),
                                    !.donation_status = "approved",
                                    !.rejectedAt = Null,
                                    !.rejectedBy = Null]
    IN  IF ~IsAdminSession(sess) THEN Throws(W, "Error")
        ELSE IF i = 0 THEN Returns(W, Null)
        ELSE Returns(_save(W, [rows EXCEPT ![i] = row]), Some(row))

approveRecord(W, donationId) ==
    LET sess == W.session
        rows == _load(W)
        i == FindIndex(rows, LAMBDA r : r.id = donationId)
        row == [rows[i] EXCEPT !.approved = Some(TRUE),
                               !.approvedAt = Some(ISONow),
                               !.approvedBy = Some(Get(sess).userId),
                               !.donation_status = "approved",
                               !.rejectedAt = Null,
                               !.rejectedBy = Null]
    IN  IF ~IsAdminSession(sess) THEN Throws(W, "Error")
        ELSE IF i = 0 THEN Returns(W, Null)
        ELSE Returns(_save(W, [rows EXCEPT ![i] = row]), Some(row))

\* rejectRecord that leaves donation_status as it was
rejectRecordStaleStatus(W, donationId, reason) ==
    LET sess == W.session
        rows == _load(W)
        i == FindIndex(rows, LAMBDA r : r.id = donationId)
        row == [rows[i] EXCEPT !.approved = Some(FALSE),
                               !.rejectedAt = Some(ISONow),
                               !.rejectedBy = Some(Get(sess).userId),
                               !.rejectionReason =
                                   Some(Trim(IF reason = Null THEN <<>> ELSE Get(reason))),
                               !.approvedAt = Null,
                               !.approvedBy = Null]
    IN  IF ~IsAdminSession(sess) THEN Throws(W, "Error")
        ELSE IF i = 0 THEN Returns(W, Null)
        ELSE Returns(_save(W, [rows EXCEPT ![i] = row]), Some(row))

rejectRecord(W, donationId, reason) ==
    LET sess == W.session
        rows == _load(W)
        i == FindIndex(rows, LAMBDA r : r.id = donationId)
        row == [rows[i] EXCEPT !.approved = Some(FALSE),
                               !.rejectedAt = Some(ISONow),
                               !.rejectedBy = Some(Get(sess).userId),
                               !.rejectionReason =
                                   Some(Trim(IF reason = Null THEN <<>> ELSE Get(reason))),
                               !.donation_status = "rejected",
                               !.approvedAt = Null,
                               !.approvedBy = Null]
    IN  IF ~IsAdminSession(sess) THEN Throws(W, "Error")
        ELSE IF i = 0 THEN Returns(W, Null)
        ELSE Returns(_save(W, [rows EXCEPT ![i] = row]), Some(row))

\* deleteRecord without the cascade into Clothes_Donations
deleteRecordNoApparelCascade(W, donationId) ==
    LET W1 == _save(W, Filter(_load(W), LAMBDA r : r.id # donationId))
        W2 == _saveTable(W1, FOOD_KEY,
                  Filter(_loadTable(W1, FOOD_KEY), LAMBDA r : r.donation_id # donationId))
    IN  Returns(_saveTable(W2, MONEY_KEY,
                    Filter(_loadTable(W2, MONEY_KEY),
                           LAMBDA r : r.donation_id # donationId)), Null)

\* deleteRecord that cascades into the notifications of the donation
deleteRecordWithNotifications(W, donationId) ==
    LET W1 == _save(W, Filter(_load(W), LAMBDA r : r.id # donationId))
        W2 == _saveTable(W1, FOOD_KEY,
                  Filter(_loadTable(W1, FOOD_KEY), LAMBDA r : r.donation_id # donationId))
        W3 == _saveTable(W2, CLOTHES_KEY,
                  Filter(_loadTable(W2, CLOTHES_KEY), LAMBDA r : r.donation_id # donationId))
        W4 == _saveTable(W3, MONEY_KEY,
                  Filter(_loadTable(W3, MONEY_KEY), LAMBDA r : r.donation_id # donationId))
    IN  Returns(_saveTable(W4, NOTIF_KEY,
                    Filter(_loadTable(W4, NOTIF_KEY), LAMBDA n : n.donationId # donationId)),
                Null)

deleteRecord(W, donationId) ==
    LET W1 == _save(W, Filter(_load(W), LAMBDA r : r.id # donationId))
        W2 == _saveTable(W1, FOOD_KEY,
                  Filter(_loadTable(W1, FOOD_KEY), LAMBDA r : r.donation_id # donationId))
        W3 == _saveTable(W2, CLOTHES_KEY,
                  Filter(_loadTable(W2, CLOTHES_KEY), LAMBDA r : r.donation_id # donationId))
    IN  Returns(_saveTable(W3, MONEY_KEY,
                    Filter(_loadTable(W3, MONEY_KEY),
                           LAMBDA r : r.donation_id # donationId)), Null)

updateFoodRecord(W, donationId, rice, veg) ==
    LET rows == _loadTable(W, FOOD_KEY)
        i == FindIndex(rows, LAMBDA r : r.donation_id = donationId)
        row == [rows[i] EXCEPT !.rice_qty = parseInt(rice), !.veg_qty = parseInt(veg)]
    IN  IF i = 0 THEN Returns(W, Null)
        ELSE Returns(_saveTable(W, FOOD_KEY, [rows EXCEPT ![i] = row]), Some(row))

\* updateApparelRecord that validates the age after the lookup of the row
updateApparelRecordLateCheck(W, donationId, targetAge) ==
    LET age == parseInt(targetAge)
        rows == _loadTable(W, CLOTHES_KEY)
        i == FindIndex(rows, LAMBDA r : r.donation_id = donationId)
        row == [rows[i] EXCEPT !.target_age = Get(age)]
    IN  IF i = 0 THEN Returns(W, Null)
        ELSE IF ~includes(VALID_AGES, age) THEN Throws(W, "RangeError")
        ELSE Returns(_saveTable(W, CLOTHES_KEY, [rows EXCEPT ![i] = row]), Some(row))

updateApparelRecord(W, donationId, targetAge) ==
    LET age == parseInt(targetAge)
        rows == _loadTable(W, CLOTHES_KEY)
        i == FindIndex(rows, LAMBDA r : r.donation_id = donationId)
        row == [rows[i] EXCEPT !.target_age = Get(age)]
    IN  IF ~includes(VALID_AGES, age) THEN Throws(W, "RangeError")
        ELSE IF i = 0 THEN Returns(W, Null)
        ELSE Returns(_saveTable(W, CLOTHES_KEY, [rows EXCEPT ![i] = row]), Some(row))

\* updateMoneyRecord that also marks the row completed
updateMoneyRecordConfirming(W, donationId, transactionId) ==
    LET rows == _loadTable(W, MONEY_KEY)
        i == FindIndex(rows, LAMBDA r : r.donation_id = donationId)
        row == [rows[i] EXCEPT !.transaction_id = transactionId, !.status = TRUE]
    IN  IF i = 0 THEN Returns(W, Null)
        ELSE Returns(_saveTable(W, MONEY_KEY, [rows EXCEPT ![i] = row]), Some(row))

\* updateMoneyRecord that writes the row back as pending
updateMoneyRecordResetting(W, donationId, transactionId) ==
    LET rows == _loadTable(W, MONEY_KEY)
        i == FindIndex(rows, LAMBDA r : r.donation_id = donationId)
        row == [rows[i] EXCEPT !.transaction_id = transactionId, !.status = FALSE]
    IN  IF i = 0 THEN Returns(W, Null)
        ELSE Returns(_saveTable(W, MONEY_KEY, [rows EXCEPT ![i] = row]), Some(row))

updateMoneyRecord(W, donationId, transactionId) ==
    LET rows == _loadTable(W, MONEY_KEY)
        i == FindIndex(rows, LAMBDA r : r.donation_id = donationId)
        row == [rows[i] EXCEPT !.transaction_id = transactionId]
    IN  IF i = 0 THEN Returns(W, Null)
        ELSE Returns(_saveTable(W, MONEY_KEY, [rows EXCEPT ![i] = row]), Some(row))

\* 'n_' + Date.now() + '_' + random: one id per notification
NotificationId(n) == <<"n", n>>

addNotification(W, userId, donationId, type, message, reason) ==
    LET notifications == _loadTable(W, NOTIF_KEY)
    IN  Returns(_saveTable(W, NOTIF_KEY,
                    Unshift(notifications,
                            [id |-> NotificationId(Len(notifications) + 1),
                             userId |-> userId, donationId |-> donationId,
                             type |-> type, message |-> message,
                             reason |-> IF reason = Null \/ Get(reason) = <<>> THEN Null
                                        ELSE Some(Trim(Get(reason))),
                             createdAt |-> ISONow, read |-> FALSE])), Null)

getNotificationsForUser(W, userId) ==
    Filter(_loadTable(W, NOTIF_KEY), LAMBDA n : n.userId = userId)

getUnreadCountForUser(W, userId) ==
    Len(Filter(_loadTable(W, NOTIF_KEY), LAMBDA n : n.userId = userId /\ ~n.read))

markNotificationRead(W, notifId) ==
    LET notifications == _loadTable(W, NOTIF_KEY)
        i == FindIndex(notifications, LAMBDA x : x.id = notifId)
    IN  IF i = 0 THEN Returns(W, Null)
        ELSE Returns(_saveTable(W, NOTIF_KEY, [notifications EXCEPT ![i].read = TRUE]), Null)

\* markAllNotificationsRead that marks the notifications of every user
markAllNotificationsReadEveryone(W, userId) ==
    LET notifications == _loadTable(W, NOTIF_KEY)
    IN  Returns(_saveTable(W, NOTIF_KEY,
                    [i \in 1..Len(notifications) |->
                        [notifications[i] EXCEPT !.read = TRUE]]), Null)

markAllNotificationsRead(W, userId) ==
    LET notifications == _loadTable(W, NOTIF_KEY)
    IN  Returns(_saveTable(W, NOTIF_KEY,
                    [i \in 1..Len(notifications) |->
                        IF notifications[i].userId = userId
                        THEN [notifications[i] EXCEPT !.read = TRUE]
                        ELSE notifications[i]]), Null)

\* clothes[age] = (clothes[age] || 0) + 1
CountAge(counts, age) ==
    IF age \in DOMAIN counts THEN [counts EXCEPT ![age] = @ + 1]
    ELSE counts @@ (age :> 1)

\* one turn of the forEach of getApprovedInventory
InventoryStep(W, acc, r) ==
    IF r.type = "food" THEN
        LET sub == Find(_loadTable(W, FOOD_KEY), LAMBDA s : s.donation_id = r.id)
        IN  [acc EXCEPT
               !.rice_kg = @ + (IF sub = Null THEN 0 ELSE OrZero(Get(sub).rice_qty)),
               !.veg_kg = @ + (IF sub = Null THEN 0 ELSE OrZero(Get(sub).veg_qty))]
    ELSE IF r.type = "apparel" THEN
        LET sub == Find(_loadTable(W, CLOTHES_KEY), LAMBDA s : s.donation_id = r.id)
        IN  IF sub # Null THEN [acc EXCEPT !.clothes = CountAge(@, Get(sub).target_age)]
            ELSE acc
    ELSE IF r.type = "money" THEN [acc EXCEPT !.money_count = @ + 1]
    ELSE acc

RECURSIVE InventoryFold(_, _, _)
InventoryFold(W, acc, recs) ==
    IF recs = <<>> THEN acc
    ELSE InventoryFold(W, InventoryStep(W, acc, Head(recs)), Tail(recs))

\* getApprovedInventory counting every record that is not rejected
getApprovedInventoryNotRejected(W) ==
    LET recs == Filter(_load(W), LAMBDA r : r.approved # Some(FALSE))
        sums == InventoryFold(W, [rice_kg |-> 0, veg_kg |-> 0, clothes |-> <<>>,
                                  money_count |-> 0], recs)
    IN  [rice_kg |-> sums.rice_kg, veg_kg |-> sums.veg_kg, clothes |-> sums.clothes,
         money_count |-> sums.money_count, total |-> Len(recs)]

getApprovedInventory(W) ==
    LET recs == Filter(_load(W), LAMBDA r : r.approved = Some(TRUE))
        sums == InventoryFold(W, [rice_kg |-> 0, veg_kg |-> 0, clothes |-> <<>>,
                                  money_count |-> 0], recs)
    IN  [rice_kg |-> sums.rice_kg, veg_kg |-> sums.veg_kg, clothes |-> sums.clothes,
         money_count |-> sums.money_count, total |-> Len(recs)]

(***************************************************************************)
(* Auth module.  An account keeps the fields the guards read: id, email,   *)
(* password hash and role.                                                 *)
(***************************************************************************)
_loadUsers(W) == W.users
_saveUsers(W, us) == [W EXCEPT !.users = us]

_seedAdminIfNeeded(W) ==
    LET us == _loadUsers(W)
    IN  IF Exists(us, LAMBDA u : u.role = "admin") THEN W
        ELSE _saveUsers(W, Append(us, SeedAdmin))

_startSession(W, user) ==
    [W EXCEPT !.session = Some([userId |-> user.id, email |-> user.email,
                                role |-> user.role, loginAt |-> ISONow])]

getSession(W) == W.session

\* registerUser that looks the email up as typed
registerUserRawCompare(W, email, password) ==
    LET us == _loadUsers(W)
        emailLower == toLowerCase(Trim(email))
        user == [id |-> <<"u", Len(us)>>, email |-> emailLower,
                 password |-> _hashPassword(password), role |-> "user"]
    IN  IF Exists(us, LAMBDA u : u.email = email)
        THEN Returns(W, Some([success |-> FALSE]))
        ELSE Returns(_startSession(_saveUsers(W, Append(us, user)), user),
                     Some([success |-> TRUE]))

registerUser(W, email, password) ==
    LET us == _loadUsers(W)
        emailLower == toLowerCase(Trim(email))
        user == [id |-> <<"u", Len(us)>>, email |-> emailLower,
                 password |-> _hashPassword(password), role |-> "user"]
    IN  IF Exists(us, LAMBDA u : u.email = emailLower)
        THEN Returns(W, Some([success |-> FALSE]))
        ELSE Returns(_startSession(_saveUsers(W, Append(us, user)), user),
                     Some([success |-> TRUE]))

\* loginUser that ends the stored session when the password is wrong
loginUserForgetful(W, email, password) ==
    LET us == _loadUsers(W)
        emailLow == toLowerCase(Trim(email))
        user == Find(us, LAMBDA u : u.email = emailLow)
    IN  IF user = Null THEN Returns(W, Some([success |-> FALSE]))
        ELSE IF Get(user).password # _hashPassword(password)
        THEN Returns([W EXCEPT !.session = Null], Some([success |-> FALSE]))
        ELSE Returns(_startSession(W, Get(user)), Some([success |-> TRUE]))

loginUser(W, email, password) ==
    LET us == _loadUsers(W)
        emailLow == toLowerCase(Trim(email))
        user == Find(us, LAMBDA u : u.email = emailLow)
    IN  IF user = Null THEN Returns(W, Some([success |-> FALSE]))
        ELSE IF Get(user).password # _hashPassword(password)
        THEN Returns(W, Some([success |-> FALSE]))
        ELSE Returns(_startSession(W, Get(user)), Some([success |-> TRUE]))

logoutUser(W) == Returns([W EXCEPT !.session = Null], Null)

\* promoteToAdmin without the single-admin check
promoteToAdminUnchecked(W, email) ==
    LET us == _loadUsers(W)
        emailLow == toLowerCase(Trim(email))
        i == FindIndex(us, LAMBDA u : u.email = emailLow)
    IN  IF i = 0 THEN Returns(W, Some(FALSE))
        ELSE Returns(_saveUsers(W, [us EXCEPT ![i].role = "admin"]), Some(TRUE))

\* promoteToAdmin that also rewrites the role of the stored session
promoteToAdminRefreshing(W, email) ==
    LET us == _loadUsers(W)
        emailLow == toLowerCase(Trim(email))
        i == FindIndex(us, LAMBDA u : u.email = emailLow)
        W1 == _saveUsers(W, [us EXCEPT ![i].role = "admin"])
    IN  IF Exists(us, LAMBDA u : u.role = "admin") THEN Returns(W, Some(FALSE))
        ELSE IF i = 0 THEN Returns(W, Some(FALSE))
        ELSE IF W.session # Null /\ Get(W.session).email = emailLow
        THEN Returns([W1 EXCEPT !.session = Some([Get(W.session) EXCEPT !.role = "admin"])],
                     Some(TRUE))
        ELSE Returns(W1, Some(TRUE))

promoteToAdmin(W, email) ==
    LET us == _loadUsers(W)
        emailLow == toLowerCase(Trim(email))
        i == FindIndex(us, LAMBDA u : u.email = emailLow)
    IN  IF Exists(us, LAMBDA u : u.role = "admin") THEN Returns(W, Some(FALSE))
        ELSE IF i = 0 THEN Returns(W, Some(FALSE))
        ELSE Returns(_saveUsers(W, [us EXCEPT ![i].role = "admin"]), Some(TRUE))

(***************************************************************************)
(* The adminDashboard store.  A row of its list keeps the fields the       *)
(* actions read.                                                           *)
(***************************************************************************)
Enriched(r) == [id |-> r.id, userId |-> r.userId, type |-> r.type, approved |-> r.approved]

adminDashboard_loadAll(W) ==
    LET rows == getAllRecords(W)
    IN  [W EXCEPT !.ui.adminDashboard.records = [i \in 1..Len(rows) |-> Enriched(rows[i])]]

adminDashboard_approve(W, donationId) ==
    LET record == Find(W.ui.adminDashboard.records, LAMBDA r : r.id = donationId)
        done == approveRecord(W, donationId)
        W1 == IF record # Null
              THEN addNotification(done.W, Get(record).userId, Get(record).id, "approved",
                                   <<"approved", Get(record).type>>, Null).W
              ELSE done.W
    IN  IF done.err # "" THEN Throws(W, done.err)
        ELSE Returns(adminDashboard_loadAll(W1), Null)

adminDashboard_reject(W, donationId) ==
    Returns([W EXCEPT !.ui.adminDashboard.rejectTargetId = Some(donationId),
                      !.ui.adminDashboard.rejectReason = <<>>,
                      !.ui.adminDashboard.rejectError = "",
                      !.ui.adminDashboard.rejectModalOpen = TRUE], Null)

adminDashboard_cancelReject(W) ==
    [W EXCEPT !.ui.adminDashboard.rejectModalOpen = FALSE,
              !.ui.adminDashboard.rejectTargetId = Null,
              !.ui.adminDashboard.rejectReason = <<>>,
              !.ui.adminDashboard.rejectError = ""]

adminDashboard_confirmReject(W) ==
    LET store == W.ui.adminDashboard
        id == Get(store.rejectTargetId)
        record == Find(store.records, LAMBDA r : r.id = id)
        done == rejectRecord(W, id, Some(store.rejectReason))
        W1 == IF record # Null
              THEN addNotification(done.W, Get(record).userId, Get(record).id, "rejected",
                                   <<"rejected", Get(record).type>>,
                                   Some(store.rejectReason)).W
              ELSE done.W
    IN  IF Trim(store.rejectReason) = <<>>
        THEN Returns([W EXCEPT !.ui.adminDashboard.rejectError = "required"], Null)
        ELSE IF done.err # "" THEN Throws(W, done.err)
        ELSE Returns(adminDashboard_loadAll(adminDashboard_cancelReject(W1)), Null)

\* confirmed is the answer to the confirm() dialog
adminDashboard_deleteRec(W, donationId, confirmed) ==
    IF ~confirmed THEN Returns(W, Null)
    ELSE Returns(adminDashboard_loadAll(deleteRecord(W, donationId).W), Null)

(***************************************************************************)
(* Inputs of the calls.                                                    *)
(***************************************************************************)
UserIds == {<<"u", 1>>, <<"u", 2>>}
FoodInputs ==
    {[userId |-> <<"u", 1>>, rice |-> <<"5">>, veg |-> <<"3">>],
     [userId |-> <<"u", 2>>, rice |-> <<"-", "2">>, veg |-> <<"k", "g">>]}
ApparelInputs ==
    {[userId |-> <<"u", 1>>, age |-> <<"2", "0">>],
     [userId |-> <<"u", 2>>, age |-> <<"4", "5", ".", "9">>],
     [userId |-> <<"u", 1>>, age |-> <<"2", "1">>],
     [userId |-> <<"u", 2>>, age |-> <<"x">>]}
MoneyInputs ==
    {[userId |-> <<"u", 1>>, qr |-> <<"u", "p", "i">>],
     [userId |-> <<"u", 2>>, qr |-> <<>>]}
ReasonInputs == {Some(<<" ", "o", "l", "d", " ">>)}
DonorEmail == <<" ", "D", "@", "x", " ">>
DonorPassword == <<"p", "w">>
LoginInputs ==
    {<<ADMIN_EMAIL, ADMIN_PASSWORD>>, <<ADMIN_EMAIL, DonorPassword>>,
     <<DonorEmail, DonorPassword>>}

\* donation ids a caller may pass: the id of every master row created so far
\* by a whole call (the odd ones: a create call generates the master id, then
\* the sub-row id), every id a stored row carries, and one id that never was
\* generated
IdArgs ==
    {_genId("dr", n) : n \in {0} \cup {k \in 1..genCount : k % 2 = 1}}
        \cup {r.id : r \in Range(records)}
        \cup {r.donation_id : r \in Range(money)}

(***************************************************************************)
(* The state machine: one action per call of the public API.               *)
(***************************************************************************)
\* the second tab is outside every call
TabIdle == [pc |-> "idle", transactionId |-> Null, masterRows |-> <<>>,
            record |-> Null, moneyRows |-> <<>>, foodRows |-> <<>>,
            thanks |-> Null, events |-> <<>>, ret |-> Null]

\* the stores as Alpine creates them, before init() has loaded anything
UiInit ==
    [adminDashboard |->
        [records |-> <<>>, rejectModalOpen |-> FALSE, rejectTargetId |-> Null,
         rejectReason |-> <<>>, rejectError |-> ""],
     foodForm |->
        [rice |-> <<>>, vegetables |-> <<>>, isLoading |-> FALSE, riceError |-> "",
         vegError |-> "", records |-> <<>>,
         suspended |-> <<>>],   \* the invocations of submit() waiting in their delay
     moneyForm |->
        [state |-> "idle", cameraError |-> FALSE, isLoading |-> FALSE,
         detectedCode |-> Null, qrPayload |-> <<>>, txnRef |-> Null,
         _pendingRecordId |-> Null, records |-> <<>>, _mediaStream |-> FALSE,
         suspended |-> 0]]      \* invocations of confirmTransaction() in their delay

Init ==
    /\ records = <<>>
    /\ food = <<>>
    /\ clothes = <<>>
    /\ money = <<>>
    /\ users = <<SeedAdmin>>
    /\ session = Null
    /\ thanks = Null
    /\ genCount = 0
    /\ last = [op |-> "load", args |-> <<>>, ret |-> Null, err |-> "", events |-> <<>>]
    /\ tab = TabIdle
    /\ notifs = <<>>
    /\ sessionStorageOk = TRUE
    /\ ui = UiInit

\* the call op(args) ran to its end with outcome res
Call(op, args, res) ==
    /\ records' = res.W.records
    /\ food' = res.W.food
    /\ clothes' = res.W.clothes
    /\ money' = res.W.money
    /\ users' = res.W.users
    /\ session' = res.W.session
    /\ thanks' = res.W.thanks
    /\ genCount' = res.W.genCount
    /\ last' = [op |-> op, args |-> args, ret |-> res.ret, err |-> res.err,
                events |-> res.W.events]
    /\ tab' = tab
    /\ notifs' = res.W.notifs
    /\ sessionStorageOk' = res.W.sessionStorageOk
    /\ ui' = res.W.ui

\* a create call generates two ids; max donations bound a run
CanCreate(max) == genCount + 2 <= 2 * max

SaveFoodRecordOf(inputs, max) ==
    \E in \in inputs :
        /\ CanCreate(max)
        /\ Call("saveFoodRecord", <<in.userId, in.rice, in.veg>>,
                saveFoodRecord(World, in.userId, in.rice, in.veg))

SaveApparelRecordOf(inputs, max) ==
    \E in \in inputs :
        /\ CanCreate(max)
        /\ Call("saveApparelRecord", <<in.userId, in.age>>,
                saveApparelRecord(World, in.userId, in.age))

CreatePendingMoneyOf(inputs, max) ==
    \E in \in inputs :
        /\ CanCreate(max)
        /\ Call("createPendingMoney", <<in.userId, in.qr>>,
                createPendingMoney(World, in.userId, in.qr))

SaveMoneyRecordOf(inputs, max) ==
    \E in \in inputs :
        /\ CanCreate(max)
        /\ Call("saveMoneyRecord", <<in.userId, in.qr>>,
                saveMoneyRecord(World, in.userId, in.qr))

CompleteMoney ==
    \E id \in IdArgs : Call("completeMoney", <<id>>, completeMoney(World, id))

CancelPendingMoney ==
    \E id \in IdArgs : Call("cancelPendingMoney", <<id>>, cancelPendingMoney(World, id))

ApproveRecord ==
    \E id \in IdArgs : Call("approveRecord", <<id>>, approveRecord(World, id))

RejectRecord ==
    \E id \in IdArgs, reason \in ReasonInputs :
        Call("rejectRecord", <<id, reason>>, rejectRecord(World, id, reason))

DeleteRecord ==
    \E id \in IdArgs : Call("deleteRecord", <<id>>, deleteRecord(World, id))

RegisterUser ==
    Call("registerUser", <<DonorEmail, DonorPassword>>,
         registerUser(World, DonorEmail, DonorPassword))

LoginUserOf(inputs) ==
    \E in \in inputs : Call("loginUser", in, loginUser(World, in[1], in[2]))

LogoutUser == Call("logoutUser", <<>>, logoutUser(World))

SaveFoodRecord == SaveFoodRecordOf(FoodInputs, MaxDonations)
SaveApparelRecord == SaveApparelRecordOf(ApparelInputs, MaxDonations)
CreatePendingMoney == CreatePendingMoneyOf(MoneyInputs, MaxDonations)
SaveMoneyRecord == SaveMoneyRecordOf(MoneyInputs, MaxDonations)
LoginUser == LoginUserOf(LoginInputs)

Next ==
    \/ SaveFoodRecord
    \/ SaveApparelRecord
    \/ CreatePendingMoney
    \/ CompleteMoney
    \/ CancelPendingMoney
    \/ SaveMoneyRecord
    \/ ApproveRecord
    \/ RejectRecord
    \/ DeleteRecord
    \/ RegisterUser
    \/ LoginUser
    \/ LogoutUser

Spec == Init /\ [][Next]_vars

(***************************************************************************)
(* The admin's view of a small inventory: three donations at most, one     *)
(* input per kind of donation, and the calls that decide what the          *)
(* inventory counts.                                                       *)
(***************************************************************************)
FixtureFood == {[userId |-> <<"u", 1>>, rice |-> <<"5">>, veg |-> <<"3">>]}
FixtureApparel == {[userId |-> <<"u", 2>>, age |-> <<"2", "0">>]}
FixtureMoney == {[userId |-> <<"u", 1>>, qr |-> <<"u", "p", "i">>]}

FixtureFoodRecord == SaveFoodRecordOf(FixtureFood, MaxFixture)
FixtureApparelRecord == SaveApparelRecordOf(FixtureApparel, MaxFixture)
FixturePendingMoney == CreatePendingMoneyOf(FixtureMoney, MaxFixture)
AdminLogin == LoginUserOf({<<ADMIN_EMAIL, ADMIN_PASSWORD>>})

NextInventory ==
    \/ FixtureFoodRecord
    \/ FixtureApparelRecord
    \/ FixturePendingMoney
    \/ AdminLogin
    \/ ApproveRecord
    \/ RejectRecord
    \/ DeleteRecord

SpecInventory == Init /\ [][NextInventory]_vars

(***************************************************************************)
(* SpecTabs: two browser tabs on one localStorage.  The first tab runs     *)
(* whole calls; the second runs createPendingMoney, and the first tab's    *)
(* calls fall between its storage accesses: each access is one step.       *)
(***************************************************************************)
TabInput == [userId |-> <<"u", 2>>, qr |-> <<"u", "p", "i">>]

\* const transactionId = ...; const masterRows = _load();
TabLoadMaster ==
    /\ tab.pc = "idle"
    /\ CanCreate(MaxTabDonations)
    /\ tab' = [TabIdle EXCEPT !.pc = "master",
                              !.transactionId = Some(TransactionId(genCount + 1)),
                              !.masterRows = _load(World)]
    /\ UNCHANGED <<records, food, clothes, money, users, session, thanks, genCount, last,
                 notifs, sessionStorageOk, ui>>

\* the second tab writing a master table of its own row only
TabSaveMasterFresh ==
    /\ tab.pc = "master"
    /\ LET record == NewMaster(_genId("dr", genCount + 1), TabInput.userId, "money")
       IN  /\ records' = <<record>>
           /\ tab' = [tab EXCEPT !.pc = "saved", !.record = Some(record)]
    /\ genCount' = genCount + 1
    /\ UNCHANGED <<food, clothes, money, users, session, thanks, last, notifs,
                   sessionStorageOk, ui>>

\* const record = {...}; masterRows.unshift(record); _save(masterRows);
TabSaveMaster ==
    /\ tab.pc = "master"
    /\ LET record == NewMaster(_genId("dr", genCount + 1), TabInput.userId, "money")
       IN  /\ records' = Unshift(tab.masterRows, record)
           /\ tab' = [tab EXCEPT !.pc = "saved", !.record = Some(record)]
    /\ genCount' = genCount + 1
    /\ UNCHANGED <<food, clothes, money, users, session, thanks, last, notifs,
                 sessionStorageOk, ui>>

\* const moneyRows = _loadTable(MONEY_KEY);
TabLoadMoney ==
    /\ tab.pc = "saved"
    /\ tab' = [tab EXCEPT !.pc = "money", !.moneyRows = _loadTable(World, MONEY_KEY)]
    /\ UNCHANGED <<records, food, clothes, money, users, session, thanks, genCount, last,
                 notifs, sessionStorageOk, ui>>

\* moneyRows.unshift({...}); _saveTable(MONEY_KEY, moneyRows); return record;
TabSaveMoney ==
    /\ tab.pc = "money"
    /\ money' = Unshift(tab.moneyRows,
                        [id |-> _genId("md", genCount + 1),
                         donation_id |-> Get(tab.record).id,
                         transaction_id |-> Get(tab.transactionId),
                         qr_payload |-> TabInput.qr, status |-> FALSE])
    /\ genCount' = genCount + 1
    /\ tab' = TabIdle
    /\ UNCHANGED <<records, food, clothes, users, session, thanks, last, notifs,
                 sessionStorageOk, ui>>

FirstTabCreatePendingMoney == CreatePendingMoneyOf(FixtureMoney, MaxTabDonations)

NextTabs ==
    \/ FirstTabCreatePendingMoney
    \/ CompleteMoney
    \/ CancelPendingMoney
    \/ TabLoadMaster
    \/ TabSaveMaster
    \/ TabLoadMoney
    \/ TabSaveMoney

SpecTabs == Init /\ [][NextTabs]_vars

(***************************************************************************)
(* SpecUpdate: donations of the three types, then field-level corrections  *)
(* of their sub-rows, with and without an admin session.                   *)
(***************************************************************************)
FoodUpdates == {[rice |-> <<"1", "2">>, veg |-> <<"0">>]}
AgeUpdates == {<<"3", "0">>, <<"2", "1">>}
TransactionUpdates == {TransactionId(0)}

UpdateFoodRecord ==
    \E id \in IdArgs, in \in FoodUpdates :
        Call("updateFoodRecord", <<id, in.rice, in.veg>>,
             updateFoodRecord(World, id, in.rice, in.veg))

UpdateApparelRecord ==
    \E id \in IdArgs, age \in AgeUpdates :
        Call("updateApparelRecord", <<id, age>>, updateApparelRecord(World, id, age))

UpdateMoneyRecord ==
    \E id \in IdArgs, transactionId \in TransactionUpdates :
        Call("updateMoneyRecord", <<id, transactionId>>,
             updateMoneyRecord(World, id, transactionId))

UpdateFoodCreate == SaveFoodRecordOf(FixtureFood, MaxUpdateDonations)
UpdateApparelCreate == SaveApparelRecordOf(FixtureApparel, MaxUpdateDonations)
UpdateMoneyCreate == CreatePendingMoneyOf(FixtureMoney, MaxUpdateDonations)

NextUpdate ==
    \/ UpdateFoodCreate
    \/ UpdateApparelCreate
    \/ UpdateMoneyCreate
    \/ AdminLogin
    \/ UpdateFoodRecord
    \/ UpdateApparelRecord
    \/ UpdateMoneyRecord
    \/ DeleteRecord

SpecUpdate == Init /\ [][NextUpdate]_vars

(***************************************************************************)
(* SpecAuth: the accounts.  Emails are given as typed, next to the text    *)
(* that trimming and lower-casing makes of them.                           *)
(***************************************************************************)
AuthEmails ==
    {[typed |-> <<" ", "D", "@", "x", " ">>, stored |-> <<"d", "@", "x">>],
     [typed |-> <<"d", "@", "X">>, stored |-> <<"d", "@", "x">>],
     [typed |-> <<"e", "@", "y">>, stored |-> <<"e", "@", "y">>],
     [typed |-> <<"A", "d", "m", "i", "n", "@", "d", "o", "n", "a", "t", "e",
                  "h", "u", "b", ".", "c", "o", "m", " ">>,
      stored |-> ADMIN_EMAIL]}
AuthPasswords == {DonorPassword, ADMIN_PASSWORD}

AuthRegister ==
    \E e \in AuthEmails :
        Call("registerUser", <<e.typed, DonorPassword>>,
             registerUser(World, e.typed, DonorPassword))

AuthLogin ==
    \E e \in AuthEmails, password \in AuthPasswords :
        Call("loginUser", <<e.typed, password>>, loginUser(World, e.typed, password))

PromoteToAdmin ==
    \E e \in AuthEmails :
        Call("promoteToAdmin", <<e.typed>>, promoteToAdmin(World, e.typed))

\* a page load runs the module again: _seedAdminIfNeeded()
PageLoad == Call("_seedAdminIfNeeded", <<>>, Returns(_seedAdminIfNeeded(World), Null))

NextAuth ==
    \/ AuthRegister
    \/ AuthLogin
    \/ LogoutUser
    \/ PromoteToAdmin
    \/ PageLoad

SpecAuth == Init /\ [][NextAuth]_vars

(***************************************************************************)
(* SpecNotifications: the mailbox of the donors.                           *)
(***************************************************************************)
NotificationInputs ==
    {[userId |-> <<"u", 1>>, type |-> "approved", message |-> "ok", reason |-> Null],
     [userId |-> <<"u", 2>>, type |-> "rejected", message |-> "no",
      reason |-> Some(<<" ", "o", "l", "d", " ">>)],
     [userId |-> <<"u", 1>>, type |-> "rejected", message |-> "no", reason |-> Some(<<>>)]}

\* the ids of the stored notifications, and one that was never given
NotificationIds == {NotificationId(n) : n \in 0..Len(notifs)}

AddNotification ==
    \E in \in NotificationInputs :
        /\ Len(notifs) < MaxNotifications
        /\ Call("addNotification", <<in.userId, in.type>>,
                addNotification(World, in.userId, _genId("dr", 1), in.type, in.message,
                                in.reason))

MarkNotificationRead ==
    \E id \in NotificationIds :
        Call("markNotificationRead", <<id>>, markNotificationRead(World, id))

MarkAllNotificationsRead ==
    \E u \in UserIds :
        Call("markAllNotificationsRead", <<u>>, markAllNotificationsRead(World, u))

NextNotifications ==
    \/ AddNotification
    \/ MarkNotificationRead
    \/ MarkAllNotificationsRead

SpecNotifications == Init /\ [][NextNotifications]_vars

(***************************************************************************)
(* SpecQuota: donations while sessionStorage accepts writes and while it   *)
(* refuses them.                                                           *)
(***************************************************************************)
\* the browser starts or stops refusing sessionStorage.setItem
SessionStorageTurns ==
    /\ sessionStorageOk' = ~sessionStorageOk
    /\ UNCHANGED <<records, food, clothes, money, users, session, thanks, genCount, last,
                   tab, notifs, ui>>

QuotaFoodRecord == SaveFoodRecordOf(FixtureFood, MaxQuotaDonations)
QuotaApparelRecord == SaveApparelRecordOf(FixtureApparel, MaxQuotaDonations)
QuotaPendingMoney == CreatePendingMoneyOf(FixtureMoney, MaxQuotaDonations)

NextQuota ==
    \/ SessionStorageTurns
    \/ QuotaFoodRecord
    \/ QuotaApparelRecord
    \/ QuotaPendingMoney
    \/ CompleteMoney

SpecQuota == Init /\ [][NextQuota]_vars

(***************************************************************************)
(* SpecRace: the second tab runs saveFoodRecord, one storage access per    *)
(* step, while the first tab runs whole calls.  The second tab has its own *)
(* sessionStorage (tab.thanks) and its own window (tab.events).            *)
(***************************************************************************)
RaceInput == [userId |-> <<"u", 2>>, rice |-> <<"5">>, veg |-> <<"3">>]

\* const riceQty = ...; const masterRows = _load();
FoodTabLoadMaster ==
    /\ tab.pc = "idle"
    /\ CanCreate(MaxRaceDonations)
    /\ tab' = [TabIdle EXCEPT !.pc = "food_master", !.masterRows = _load(World),
                              !.thanks = tab.thanks]
    /\ UNCHANGED <<records, food, clothes, money, users, session, thanks, genCount, last,
                   notifs, sessionStorageOk, ui>>

\* const record = {...}; masterRows.unshift(record); _save(masterRows);
FoodTabSaveMaster ==
    /\ tab.pc = "food_master"
    /\ LET record == NewMaster(_genId("dr", genCount + 1), RaceInput.userId, "food")
       IN  /\ records' = Unshift(tab.masterRows, record)
           /\ tab' = [tab EXCEPT !.pc = "food_saved", !.record = Some(record)]
    /\ genCount' = genCount + 1
    /\ UNCHANGED <<food, clothes, money, users, session, thanks, last, notifs,
                   sessionStorageOk, ui>>

\* const foodRows = _loadTable(FOOD_KEY);
FoodTabLoadFood ==
    /\ tab.pc = "food_saved"
    /\ tab' = [tab EXCEPT !.pc = "food_loaded", !.foodRows = _loadTable(World, FOOD_KEY)]
    /\ UNCHANGED <<records, food, clothes, money, users, session, thanks, genCount, last,
                   notifs, sessionStorageOk, ui>>

\* foodRows.unshift({...}); _saveTable(FOOD_KEY, foodRows);
FoodTabSaveFood ==
    /\ tab.pc = "food_loaded"
    /\ food' = Unshift(tab.foodRows,
                       [id |-> _genId("fd", genCount + 1),
                        donation_id |-> Get(tab.record).id,
                        rice_qty |-> parseInt(RaceInput.rice),
                        veg_qty |-> parseInt(RaceInput.veg)])
    /\ genCount' = genCount + 1
    /\ tab' = [tab EXCEPT !.pc = "food_written"]
    /\ UNCHANGED <<records, clothes, money, users, session, thanks, last, notifs,
                   sessionStorageOk, ui>>

\* if (_verifyCommit(record.id, FOOD_KEY)) _setThanksFlag(record);
\* _dispatchSuccess(record); return record;
FoodTabCommit ==
    /\ tab.pc = "food_written"
    /\ LET record == Get(tab.record)
           Mine == [World EXCEPT !.thanks = tab.thanks]
           W3 == IF _verifyCommit(Mine, record.id, FOOD_KEY)
                 THEN _setThanksFlag(Mine, record) ELSE Mine
       IN  tab' = [tab EXCEPT !.pc = "idle", !.thanks = W3.thanks,
                              !.events = _dispatchSuccess(W3, record).events,
                              !.ret = Some(record)]
    /\ UNCHANGED <<records, food, clothes, money, users, session, thanks, genCount, last,
                   notifs, sessionStorageOk, ui>>

RaceFoodRecord == SaveFoodRecordOf(FixtureFood, MaxRaceDonations)
RaceApparelRecord == SaveApparelRecordOf(FixtureApparel, MaxRaceDonations)
RacePendingMoney == CreatePendingMoneyOf(FixtureMoney, MaxRaceDonations)

NextRace ==
    \/ RaceFoodRecord
    \/ RaceApparelRecord
    \/ RacePendingMoney
    \/ CompleteMoney
    \/ DeleteRecord
    \/ FoodTabLoadMaster
    \/ FoodTabSaveMaster
    \/ FoodTabLoadFood
    \/ FoodTabSaveFood
    \/ FoodTabCommit

SpecRace == Init /\ [][NextRace]_vars

(***************************************************************************)
(* Vocabulary of the properties.                                           *)
(***************************************************************************)
\* the decimal text of a natural number, as String(n) writes it
RECURSIVE NumText(_)
NumText(n) ==
    LET d == <<"0", "1", "2", "3", "4", "5", "6", "7", "8", "9">>
    IN  IF n < 10 THEN <<d[n + 1]>> ELSE Append(NumText(n \div 10), d[(n % 10) + 1])

\* s without its i-th element
RemoveAt(s, i) == SubSeq(s, 1, i - 1) \o SubSeq(s, i + 1, Len(s))

\* s is t with some elements left out, the others in t's order
RECURSIVE IsSubsequence(_, _)
IsSubsequence(s, t) ==
    IF s = <<>> THEN TRUE
    ELSE IF t = <<>> THEN FALSE
    ELSE IF Head(s) = Head(t) THEN IsSubsequence(Tail(s), Tail(t))
    ELSE IsSubsequence(s, Tail(t))

\* what is stored, the inputs of the calls aside
SameTables(A, B) ==
    /\ A.records = B.records
    /\ A.food = B.food
    /\ A.clothes = B.clothes
    /\ A.money = B.money

\* nothing stored changes, no flag is set and no event is dispatched
NoEffect(res) ==
    /\ SameTables(res.W, World)
    /\ res.W.users = users
    /\ res.W.session = session
    /\ res.W.thanks = thanks
    /\ res.W.notifs = notifs
    /\ res.W.events = <<>>

Quantities == {0, 3, 5, 12}
ValidAgeSet == {10, 19, 20, 30, 45}
AgeNumbers == {0, 1, 2, 9, 11, 18, 21, 29, 31, 44, 46, 100, 190, 201, 450}

(***************************************************************************)
(* C1.  From every reachable state, for every user and every pair of       *)
(* non-negative integers, saveFoodRecord adds exactly one pending master   *)
(* row of type food and exactly one food row that references it and holds  *)
(* the two quantities; getRecordById and getFoodByDonationId then return   *)
(* these rows; no other row of any table changes.                          *)
(***************************************************************************)
C1_SaveFoodAddsOneLinkedPair ==
    \A u \in UserIds, rice \in Quantities, veg \in Quantities :
        LET res == saveFoodRecord(World, u, NumText(rice), NumText(veg))
            rec == Get(res.ret)
            A == res.W
        IN  /\ res.err = ""
            /\ rec.userId = u /\ rec.type = "food" /\ rec.approved = Null
            /\ \A r \in Range(records) : r.id # rec.id
            /\ \E i \in 1..Len(A.records) :
                  A.records[i] = rec /\ RemoveAt(A.records, i) = records
            /\ \E j \in 1..Len(A.food) :
                  /\ A.food[j].donation_id = rec.id
                  /\ A.food[j].rice_qty = Some(rice)
                  /\ A.food[j].veg_qty = Some(veg)
                  /\ RemoveAt(A.food, j) = food
                  /\ getFoodByDonationId(A, rec.id) = Some(A.food[j])
            /\ getRecordById(A, rec.id) = Some(rec)
            /\ A.clothes = clothes /\ A.money = money

\* saveFoodRecord has just stored 5 kg of rice and 3 kg of vegetables
C1_Witness ==
    /\ last.op = "saveFoodRecord"
    /\ last.ret # Null
    /\ getRecordById(World, Get(last.ret).id) = last.ret
    /\ getFoodByDonationId(World, Get(last.ret).id) # Null
    /\ Get(getFoodByDonationId(World, Get(last.ret).id)).rice_qty = Some(5)
    /\ Get(getFoodByDonationId(World, Get(last.ret).id)).veg_qty = Some(3)
    /\ Len(records) = 2

(***************************************************************************)
(* C2.  saveApparelRecord with an age whose integer value is not one of    *)
(* 10, 19, 20, 30, 45 (or that has none) throws a RangeError and writes    *)
(* nothing: tables, thanks flag and events are as before the call.         *)
(***************************************************************************)
C2_InvalidAgeWritesNothing ==
    \A u \in UserIds :
        /\ \A n \in AgeNumbers \ ValidAgeSet :
              LET res == saveApparelRecord(World, u, NumText(n))
              IN  res.err = "RangeError" /\ NoEffect(res) /\ res.W.genCount = genCount
        /\ \A text \in {<<>>, <<"x">>, <<"-", "2", "0">>} :
              LET res == saveApparelRecord(World, u, text)
              IN  res.err = "RangeError" /\ NoEffect(res) /\ res.W.genCount = genCount

\* saveApparelRecord has just thrown its RangeError, with rows already stored
C2_Witness ==
    /\ last.op = "saveApparelRecord"
    /\ last.err = "RangeError"
    /\ parseInt(last.args[2]) = Some(21)
    /\ records # <<>>
    /\ clothes # <<>>

(***************************************************************************)
(* C3.  From every reachable state, createPendingMoney followed at once by *)
(* cancelPendingMoney on the id it returned leaves the master table and    *)
(* the money table as they were: same rows, same order.                    *)
(***************************************************************************)
C3_CreateThenCancelRestores ==
    \A in \in MoneyInputs :
        LET created == createPendingMoney(World, in.userId, in.qr)
            cancelled == cancelPendingMoney(created.W, Get(created.ret).record.id)
        IN  /\ created.W.records # records
            /\ created.W.money # money
            /\ cancelled.W.records = records
            /\ cancelled.W.money = money
            /\ cancelled.W.food = food
            /\ cancelled.W.clothes = clothes

\* cancelPendingMoney has just removed the second donation of the run, a
\* pending money donation: no create call but createPendingMoney leaves the
\* thanks flag of the first donation in place
C3_Witness ==
    /\ last.op = "cancelPendingMoney"
    /\ last.args = <<_genId("dr", 3)>>
    /\ genCount = 4
    /\ Len(records) = 1 /\ records[1].id = _genId("dr", 1)
    /\ thanks # Null /\ Get(thanks).donationId = _genId("dr", 1)
    /\ records[1].type = "food"
    /\ money = <<>>

(***************************************************************************)
(* C4.  completeMoney called with a donation id that has no master row     *)
(* returns null, dispatches no success event, sets no thanks flag and      *)
(* leaves every table unchanged, the money table included when a money     *)
(* row carrying that donation_id exists.                                   *)
(***************************************************************************)
C4_UnknownIdMutatesNothing ==
    \A id \in IdArgs :
        getRecordById(World, id) = Null =>
            LET res == completeMoney(World, id)
            IN  res.err = "" /\ res.ret = Null /\ NoEffect(res)

(***************************************************************************)
(* C5 (as claimed).  With an admin session, approveRecord then             *)
(* rejectRecord on one existing id leaves exactly the rejection audit      *)
(* fields (rejectedAt, rejectedBy, rejectionReason) on the row and no      *)
(* approval audit field; rejectRecord then approveRecord leaves exactly    *)
(* the approval audit fields (approvedAt, approvedBy) and no rejection     *)
(* audit field, rejectionReason included.                                  *)
(***************************************************************************)
OnlyRejectionAudit(row) ==
    /\ row.rejectedAt # Null /\ row.rejectedBy # Null /\ row.rejectionReason # Null
    /\ row.approvedAt = Null /\ row.approvedBy = Null

OnlyApprovalAudit(row) ==
    /\ row.approvedAt # Null /\ row.approvedBy # Null
    /\ row.rejectedAt = Null /\ row.rejectedBy = Null /\ row.rejectionReason = Null

C5_AuditTrailsExclusive ==
    IsAdminSession(session) =>
        \A r \in Range(records), reason \in ReasonInputs :
            LET approvedThenRejected ==
                    rejectRecord(approveRecord(World, r.id).W, r.id, reason).W
                rejectedThenApproved ==
                    approveRecord(rejectRecord(World, r.id, reason).W, r.id).W
            IN  /\ OnlyRejectionAudit(Get(getRecordById(approvedThenRejected, r.id)))
                /\ OnlyApprovalAudit(Get(getRecordById(rejectedThenApproved, r.id)))

(***************************************************************************)
(* C6.  After deleteRecord(id) no master row has that id and no food,      *)
(* apparel or money row references it; the rows of the other donations     *)
(* stay, in their order; deleting again, or deleting an id that no row     *)
(* mentions, changes nothing; deleteRecord never throws.                   *)
(***************************************************************************)
\* `after` is `before` without the rows that P selects, the rest in order
KeepsOthers(before, after, P(_)) ==
    /\ IsSubsequence(after, before)
    /\ \A i \in 1..Len(before) : ~P(before[i]) => before[i] \in Range(after)
    /\ \A i \in 1..Len(after) : ~P(after[i])

Mentions(W, id) ==
    \/ \E r \in Range(W.records) : r.id = id
    \/ \E r \in Range(W.food) \cup Range(W.clothes) \cup Range(W.money) : r.donation_id = id

C6_DeleteCascades ==
    \A id \in IdArgs :
        LET res == deleteRecord(World, id)
            again == deleteRecord(res.W, id)
        IN  /\ res.err = "" /\ again.err = ""
            /\ ~Mentions(res.W, id)
            /\ KeepsOthers(records, res.W.records, LAMBDA r : r.id = id)
            /\ KeepsOthers(food, res.W.food, LAMBDA r : r.donation_id = id)
            /\ KeepsOthers(clothes, res.W.clothes, LAMBDA r : r.donation_id = id)
            /\ KeepsOthers(money, res.W.money, LAMBDA r : r.donation_id = id)
            /\ again.W = res.W
            /\ ~Mentions(World, id) => res.W = World

\* deleteRecord has just removed the middle one of three donations, and the
\* other two rows are left in their order
C6_Witness ==
    /\ last.op = "deleteRecord"
    /\ last.args = <<_genId("dr", 3)>>
    /\ genCount = 6
    /\ Len(records) = 2
    /\ records[1].id = _genId("dr", 5) /\ records[2].id = _genId("dr", 1)
    /\ ~Mentions(World, _genId("dr", 3))
    /\ Len(food) + Len(clothes) + Len(money) = 2

(***************************************************************************)
(* C7.  In every reachable state getApprovedInventory returns the sums of  *)
(* rice_qty and veg_qty over the food rows of approved food records, the   *)
(* number of approved apparel records per target_age, the number of        *)
(* approved money records and the number of approved records; pending and  *)
(* rejected records count nowhere.  One approved food donation 5/3, one    *)
(* approved apparel donation of age 20 and one pending money donation give *)
(* rice 5, veg 3, clothes {20: 1}, money 0, total 2.                       *)
(***************************************************************************)
Approved(type) ==
    {r \in Range(records) : r.approved = Some(TRUE) /\ r.type = type}

\* the sum of f over a finite set
RECURSIVE SumOver(_, _)
SumOver(S, f) ==
    IF S = {} THEN 0
    ELSE LET x == CHOOSE y \in S : TRUE IN f[x] + SumOver(S \ {x}, f)

ApprovedFoodRows ==
    {s \in Range(food) : \E r \in Approved("food") : s.donation_id = r.id}

ApprovedOfAge(a) ==
    {r \in Approved("apparel") :
        \E s \in Range(clothes) : s.donation_id = r.id /\ s.target_age = a}

IsFixture ==
    /\ Len(records) = 3
    /\ \E r \in Approved("food") :
          \E s \in Range(food) :
              s.donation_id = r.id /\ s.rice_qty = Some(5) /\ s.veg_qty = Some(3)
    /\ ApprovedOfAge(20) # {}
    /\ \E r \in Range(records) : r.type = "money" /\ r.approved = Null

C7_InventoryCountsApprovedOnly ==
    LET inv == getApprovedInventory(World)
        rice == [s \in ApprovedFoodRows |-> IF s.rice_qty = Null THEN 0 ELSE Get(s.rice_qty)]
        veg == [s \in ApprovedFoodRows |-> IF s.veg_qty = Null THEN 0 ELSE Get(s.veg_qty)]
    IN  /\ inv.rice_kg = SumOver(ApprovedFoodRows, rice)
        /\ inv.veg_kg = SumOver(ApprovedFoodRows, veg)
        /\ DOMAIN inv.clothes = {a \in ValidAgeSet : ApprovedOfAge(a) # {}}
        /\ \A a \in DOMAIN inv.clothes : inv.clothes[a] = Cardinality(ApprovedOfAge(a))
        /\ inv.money_count = Cardinality(Approved("money"))
        /\ inv.total =
              Cardinality({r \in Range(records) : r.approved = Some(TRUE)})
        /\ IsFixture =>
              inv = [rice_kg |-> 5, veg_kg |-> 3, clothes |-> (20 :> 1),
                     money_count |-> 0, total |-> 2]

\* the fixture is stored, and a rejected record is not part of it
C7_Witness ==
    /\ IsFixture
    /\ \A r \in Range(records) : r.approved # Some(FALSE)
    /\ last.op = "approveRecord"

(***************************************************************************)
(* C8.  In every reachable state and for every user u, getRecordsByUser(u) *)
(* is exactly the master rows whose userId is u: no row of another user,   *)
(* every row of u, in the table's order.                                   *)
(***************************************************************************)
C8_ListByUserIsExact ==
    \A u \in UserIds \cup {ADMIN_SEED_ID} :
        LET out == getRecordsByUser(World, u)
        IN  /\ \A i \in 1..Len(out) : out[i].userId = u
            /\ \A r \in Range(records) : r.userId = u => r \in Range(out)
            /\ IsSubsequence(out, records)

\* two donors have one stored donation each
C8_Witness ==
    /\ Len(records) = 2
    /\ records[1].userId # records[2].userId
    /\ Len(getRecordsByUser(World, records[1].userId)) = 1
    /\ last.op \in {"saveFoodRecord", "saveApparelRecord", "createPendingMoney",
                    "saveMoneyRecord"}

(***************************************************************************)
(* C9.  getAllRecords returns the union of every user's master records.    *)
(* As claimed, in insertion order: a record created earlier comes before a *)
(* record created later.  As the code has it, newest first: a record       *)
(* created later comes before a record created earlier.                    *)
(***************************************************************************)
\* the n of the n-th id generated: ids are time-ordered by construction
CreatedOrder(r) == r.id[2]

AllIsUnionOfUsers ==
    LET all == getAllRecords(World)
    IN  /\ Range(all) = UNION {Range(getRecordsByUser(World, u)) : u \in UserIds}
        /\ Len(all) = Cardinality(Range(all))

C9_OldestFirst ==
    LET all == getAllRecords(World)
    IN  /\ AllIsUnionOfUsers
        /\ \A i, j \in 1..Len(all) :
              i < j => CreatedOrder(all[i]) < CreatedOrder(all[j])

C9_NewestFirst ==
    LET all == getAllRecords(World)
    IN  /\ AllIsUnionOfUsers
        /\ \A i, j \in 1..Len(all) :
              i < j => CreatedOrder(all[i]) > CreatedOrder(all[j])

\* three donations of two donors are listed
C9_Witness ==
    /\ Len(getAllRecords(World)) = 3
    /\ \E i, j \in 1..3 : records[i].userId # records[j].userId
    /\ last.op \in {"saveFoodRecord", "saveApparelRecord", "createPendingMoney"}

(***************************************************************************)
(* C10.  approveRecord and rejectRecord read the session at each call:     *)
(* with no session stored, or a session whose role is not admin, the call  *)
(* throws and nothing changes, whether or not the id exists; so an approve *)
(* after logoutUser fails although an earlier approve succeeded.           *)
(***************************************************************************)
C10_AdminGuardAtCallTime ==
    (session = Null \/ Get(session).role # "admin") =>
        \A id \in IdArgs, reason \in ReasonInputs \cup {Null} :
            LET approve == approveRecord(World, id)
                reject == rejectRecord(World, id, reason)
            IN  /\ approve.err = "Error" /\ NoEffect(approve)
                /\ reject.err = "Error" /\ NoEffect(reject)

\* an approve has just failed after logout, on a record an earlier approve
\* had approved
C10_Witness ==
    /\ last.op = "approveRecord"
    /\ last.err = "Error"
    /\ session = Null
    /\ \E r \in Range(records) :
          r.id = last.args[1] /\ r.approved = Some(TRUE) /\ r.approvedBy = Some(ADMIN_SEED_ID)

(***************************************************************************)
(* C11.  deleteRecord, updateFoodRecord, updateApparelRecord and           *)
(* updateMoneyRecord fail and change no table when no session is stored or *)
(* the stored session's role is not admin.  Stated for the ids of the      *)
(* stored master rows, the calls that have something to change.            *)
(***************************************************************************)
NoAdminSession == session = Null \/ Get(session).role # "admin"

Refused(res) == res.err # "" /\ NoEffect(res)

C11_AdminOnlyMaintenance ==
    NoAdminSession =>
        \A r \in Range(records) :
            /\ Refused(deleteRecord(World, r.id))
            /\ \A in \in FoodUpdates :
                  Refused(updateFoodRecord(World, r.id, in.rice, in.veg))
            /\ \A age \in AgeUpdates : Refused(updateApparelRecord(World, r.id, age))
            /\ \A transactionId \in TransactionUpdates :
                  Refused(updateMoneyRecord(World, r.id, transactionId))

(***************************************************************************)
(* C12.  Referential integrity: after any sequence of whole calls of the   *)
(* public operations with arbitrary id arguments, every row of the food,   *)
(* apparel and money tables carries the id of a stored master row whose    *)
(* type is that of the table.                                              *)
(***************************************************************************)
HasMaster(W, row, type) ==
    \E r \in Range(W.records) : r.id = row.donation_id /\ r.type = type

C12_ReferentialIntegrity ==
    /\ \A s \in Range(food) : HasMaster(World, s, "food")
    /\ \A s \in Range(clothes) : HasMaster(World, s, "apparel")
    /\ \A s \in Range(money) : HasMaster(World, s, "money")

(***************************************************************************)
(* C13.  In every reachable state each master row has at most one row in   *)
(* the sub-table of its type and no row in the other two sub-tables.       *)
(***************************************************************************)
SubRows(rows, id) == {i \in 1..Len(rows) : rows[i].donation_id = id}

C13_OneSubRowOfOwnType ==
    \A r \in Range(records) :
        /\ Cardinality(SubRows(food, r.id)) <= (IF r.type = "food" THEN 1 ELSE 0)
        /\ Cardinality(SubRows(clothes, r.id)) <= (IF r.type = "apparel" THEN 1 ELSE 0)
        /\ Cardinality(SubRows(money, r.id)) <= (IF r.type = "money" THEN 1 ELSE 0)

\* an apparel donation was stored after a food donation, each with its row
C13_Witness ==
    /\ last.op = "saveApparelRecord" /\ last.err = ""
    /\ Len(records) = 2
    /\ records[1].type = "apparel" /\ records[2].type = "food"
    /\ Cardinality(SubRows(clothes, records[1].id)) = 1
    /\ Cardinality(SubRows(food, records[2].id)) = 1

(***************************************************************************)
(* C14.  In every reachable state and for every master row,                *)
(* donation_status mirrors approved: pending exactly when approved is      *)
(* null, approved exactly when it is true, rejected exactly when it is     *)
(* false.                                                                  *)
(***************************************************************************)
C14_StatusMirrorsApproved ==
    \A r \in Range(records) :
        /\ r.donation_status = "pending" <=> r.approved = Null
        /\ r.donation_status = "approved" <=> r.approved = Some(TRUE)
        /\ r.donation_status = "rejected" <=> r.approved = Some(FALSE)

\* one row approved, then another rejected
C14_Witness ==
    /\ last.op = "rejectRecord" /\ last.err = "" /\ last.ret # Null
    /\ \E r \in Range(records) : r.approved = Some(TRUE)
    /\ \E r \in Range(records) : r.approved = Some(FALSE)

(***************************************************************************)
(* C15.  Approval workflow.  A master row is created with approved = null; *)
(* approved is one of null, true, false; a stored row's approved changes   *)
(* only by approveRecord on its id, to true, and by rejectRecord on its    *)
(* id, to false, so no operation returns it to null; and no state is       *)
(* terminal: under an admin session a row in any state can be approved,    *)
(* then rejected, then approved again.                                     *)
(***************************************************************************)
ApprovedOf(W, id) == Get(getRecordById(W, id)).approved

NoTerminalState ==
    ~NoAdminSession =>
        \A r \in Range(records), reason \in ReasonInputs :
            LET W1 == approveRecord(World, r.id).W
                W2 == rejectRecord(W1, r.id, reason).W
                W3 == approveRecord(W2, r.id).W
            IN  /\ ApprovedOf(W1, r.id) = Some(TRUE)
                /\ ApprovedOf(W2, r.id) = Some(FALSE)
                /\ ApprovedOf(W3, r.id) = Some(TRUE)
                /\ ApprovedOf(rejectRecord(World, r.id, reason).W, r.id) = Some(FALSE)

\* the field-level corrections write no master row
CorrectionsKeepApproved ==
    \A id \in IdArgs :
        /\ \A in \in FoodUpdates :
              updateFoodRecord(World, id, in.rice, in.veg).W.records = records
        /\ \A age \in AgeUpdates : updateApparelRecord(World, id, age).W.records = records
        /\ \A transactionId \in TransactionUpdates :
              updateMoneyRecord(World, id, transactionId).W.records = records

ApprovalStep ==
    \A i \in 1..Len(records') :
        LET new == records'[i]
        IN  /\ new.approved \in {Null, Some(TRUE), Some(FALSE)}
            /\ IF getRecordById(World, new.id) = Null THEN new.approved = Null
               ELSE new.approved # ApprovedOf(World, new.id) =>
                       /\ last'.args[1] = new.id
                       /\ \/ last'.op = "approveRecord" /\ new.approved = Some(TRUE)
                          \/ last'.op = "rejectRecord" /\ new.approved = Some(FALSE)

C15_ApprovalWorkflow ==
    /\ [](NoTerminalState /\ CorrectionsKeepApproved)
    /\ [][ApprovalStep]_vars

\* a rejected row has just been approved: it keeps the reason of its rejection
C15_Witness ==
    /\ last.op = "approveRecord" /\ last.err = ""
    /\ \E r \in Range(records) :
          r.id = last.args[1] /\ r.approved = Some(TRUE) /\ r.rejectionReason # Null

(***************************************************************************)
(* C16.  In every reachable state every apparel row has target_age in      *)
(* {10, 19, 20, 30, 45}; updateApparelRecord with an invalid age throws a  *)
(* range error and changes nothing, also when the donation id has no       *)
(* apparel row; with a valid age it keeps every stored age valid.          *)
(***************************************************************************)
InvalidAgeTexts ==
    {<<"2", "1">>, <<"0">>, <<"1", "0", "0">>, <<"-", "1", "0">>, <<"x">>, <<>>,
     <<"x", "2", "0">>}
ValidAgeTexts == {<<"3", "0">>, <<" ", "1", "0">>, <<"4", "5", ".", "9">>, <<"1", "9", "y">>}

AgesValid(W) == \A s \in Range(W.clothes) : s.target_age \in ValidAgeSet

C16_ApparelAgesValid ==
    /\ AgesValid(World)
    /\ \A id \in IdArgs :
          /\ \A age \in InvalidAgeTexts :
                LET res == updateApparelRecord(World, id, age)
                IN  res.err = "RangeError" /\ NoEffect(res)
          /\ \A age \in ValidAgeTexts :
                LET res == updateApparelRecord(World, id, age)
                IN  res.err = "" /\ AgesValid(res.W)

\* an update to 30 was stored, then an update to 21 on an id without apparel
\* row was refused
C16_Witness ==
    /\ last.op = "updateApparelRecord" /\ last.err = "RangeError"
    /\ SubRows(clothes, last.args[1]) = {}
    /\ \E s \in Range(clothes) : s.target_age = 30

(***************************************************************************)
(* C17.  createPendingMoney adds one pending master row of type money and  *)
(* one money row with status = false referencing it, returns the record    *)
(* with a transactionId equal to the money row's transaction_id, sets no   *)
(* thanks flag and dispatches no success event; the stored master row      *)
(* carries no transactionId.                                               *)
(***************************************************************************)
C17_CreatePendingMoneyStoresPendingPair ==
    \A in \in MoneyInputs :
        LET res == createPendingMoney(World, in.userId, in.qr)
            rec == Get(res.ret).record
            A == res.W
        IN  /\ res.err = ""
            /\ rec.userId = in.userId /\ rec.type = "money"
            /\ rec.approved = Null /\ rec.donation_status = "pending"
            /\ "transactionId" \notin DOMAIN rec
            /\ \A r \in Range(records) : r.id # rec.id
            /\ \E i \in 1..Len(A.records) :
                  A.records[i] = rec /\ RemoveAt(A.records, i) = records
            /\ \E j \in 1..Len(A.money) :
                  /\ A.money[j].donation_id = rec.id
                  /\ A.money[j].status = FALSE
                  /\ A.money[j].transaction_id = Get(res.ret).transactionId
                  /\ A.money[j].qr_payload = in.qr
                  /\ RemoveAt(A.money, j) = money
            /\ A.food = food /\ A.clothes = clothes
            /\ A.thanks = thanks /\ A.events = <<>>

\* a second donation was started by createPendingMoney: no event, no flag of it
C17_Witness ==
    /\ last.op = "createPendingMoney" /\ last.ret # Null
    /\ last.events = <<>>
    /\ Len(records) = 2
    /\ records[1] = Get(last.ret).record
    /\ money[1].donation_id = records[1].id /\ money[1].status = FALSE
    /\ \A f \in thanks : f.donationId # records[1].id

(***************************************************************************)
(* C18.  completeMoney on the id of a stored money donation whose money    *)
(* row has status = false sets that row's status to true and changes no    *)
(* other row, sets the thanks flag for that donation, dispatches the       *)
(* success event once, carrying the master record, and returns the master  *)
(* record.                                                                 *)
(***************************************************************************)
IsPendingMoney(r) ==
    /\ r.type = "money"
    /\ \E s \in Range(money) : s.donation_id = r.id /\ s.status = FALSE

C18_CompleteMoneyConfirmsOneRow ==
    \A r \in Range(records) :
        IsPendingMoney(r) =>
            LET res == completeMoney(World, r.id)
                A == res.W
            IN  /\ res.err = "" /\ res.ret = Some(r)
                /\ A.records = records /\ A.food = food /\ A.clothes = clothes
                /\ Len(A.money) = Len(money)
                /\ \A i \in 1..Len(money) :
                      A.money[i] = IF money[i].donation_id = r.id
                                   THEN [money[i] EXCEPT !.status = TRUE]
                                   ELSE money[i]
                /\ A.thanks # Null
                /\ Get(A.thanks).donationId = r.id /\ Get(A.thanks).type = "money"
                /\ A.events = <<[id |-> r.id, type |-> "money"]>>

\* of two pending money donations one has just been completed
C18_Witness ==
    /\ last.op = "completeMoney" /\ last.ret # Null
    /\ Len(last.events) = 1
    /\ Len(money) = 2
    /\ \E i, j \in 1..2 :
          /\ money[i].donation_id = last.args[1] /\ money[i].status = TRUE
          /\ money[j].status = FALSE
    /\ Get(thanks).donationId = last.args[1]

(***************************************************************************)
(* C19.  saveMoneyRecord(userId, qr) is createPendingMoney(userId, qr)     *)
(* followed by completeMoney on the returned id: it ends with one new      *)
(* master row and one money row with status = true, one success event      *)
(* dispatched for it, and returns the record carrying the transactionId.   *)
(***************************************************************************)
C19_SaveMoneyIsCreateThenComplete ==
    \A in \in MoneyInputs :
        LET saved == saveMoneyRecord(World, in.userId, in.qr)
            created == createPendingMoney(World, in.userId, in.qr)
            id == Get(created.ret).record.id
            completed == completeMoney(created.W, id)
            A == saved.W
        IN  /\ saved.err = ""
            /\ A = completed.W
            /\ saved.ret = created.ret
            /\ Get(saved.ret).transactionId = TransactionId(id[2])
            /\ Len(A.records) = Len(records) + 1
            /\ Len(A.money) = Len(money) + 1
            /\ \E j \in 1..Len(A.money) :
                  /\ A.money[j].donation_id = id /\ A.money[j].status = TRUE
                  /\ A.money[j].transaction_id = Get(saved.ret).transactionId
                  /\ RemoveAt(A.money, j) = money
            /\ getRecordById(A, id) = Some(Get(saved.ret).record)
            /\ A.events = <<[id |-> id, type |-> "money"]>>

\* saveMoneyRecord has just stored a completed donation next to another one
C19_Witness ==
    /\ last.op = "saveMoneyRecord" /\ last.ret # Null
    /\ Len(last.events) = 1
    /\ Len(records) = 2
    /\ records[1] = Get(last.ret).record
    /\ money[1].donation_id = records[1].id /\ money[1].status = TRUE

(***************************************************************************)
(* C20.  updateFoodRecord, updateApparelRecord with a valid age and        *)
(* updateMoneyRecord return null and change nothing when the donation id   *)
(* has no row in their sub-table; when the row exists they change only the *)
(* named fields of that one row (rice_qty and veg_qty, target_age,         *)
(* transaction_id), never the master table nor the money row's status.     *)
(***************************************************************************)
\* res changed the table key in its row of id to the row new, and nothing else
OnlyRowChanged(res, key, id, new) ==
    LET before == World[key]
        after == res.W[key]
    IN  /\ res.err = "" /\ res.ret = Some(new)
        /\ Len(after) = Len(before)
        /\ \A i \in 1..Len(before) :
              after[i] = IF before[i].donation_id = id THEN new ELSE before[i]
        /\ \A k \in {"records", "food", "clothes", "money"} \ {key} : res.W[k] = World[k]
        /\ res.W.thanks = thanks /\ res.W.events = <<>>

NotFound(res) == res.err = "" /\ res.ret = Null /\ NoEffect(res)

RowOf(rows, id) == rows[CHOOSE i \in SubRows(rows, id) : TRUE]

C20_UpdatesTouchNamedFieldsOnly ==
    \A id \in IdArgs :
        /\ \A rice \in Quantities, veg \in Quantities :
              LET res == updateFoodRecord(World, id, NumText(rice), NumText(veg))
              IN  IF SubRows(food, id) = {} THEN NotFound(res)
                  ELSE OnlyRowChanged(res, "food", id,
                           [RowOf(food, id) EXCEPT !.rice_qty = Some(rice),
                                                   !.veg_qty = Some(veg)])
        /\ \A age \in ValidAgeSet :
              LET res == updateApparelRecord(World, id, NumText(age))
              IN  IF SubRows(clothes, id) = {} THEN NotFound(res)
                  ELSE OnlyRowChanged(res, "clothes", id,
                           [RowOf(clothes, id) EXCEPT !.target_age = age])
        /\ \A transactionId \in TransactionUpdates \cup {TransactionId(7)} :
              LET res == updateMoneyRecord(World, id, transactionId)
              IN  IF SubRows(money, id) = {} THEN NotFound(res)
                  ELSE OnlyRowChanged(res, "money", id,
                           [RowOf(money, id) EXCEPT !.transaction_id = transactionId])

\* a food, an apparel and a pending money donation have all been corrected
C20_Witness ==
    /\ last.op = "updateMoneyRecord" /\ last.ret # Null
    /\ Len(records) = 3
    /\ \E s \in Range(food) : s.rice_qty = Some(12) /\ s.veg_qty = Some(0)
    /\ \E s \in Range(clothes) : s.target_age = 30
    /\ \E s \in Range(money) : s.transaction_id = TransactionId(0) /\ s.status = FALSE
    /\ \A r \in Range(records) : r.approved = Null

(***************************************************************************)
(* C23.  In completeMoney, whenever the master row of the id exists, the   *)
(* success event is dispatched whatever commit verification finds, also    *)
(* when no money row references the id; the thanks flag is written only    *)
(* when a money row references the id.                                     *)
(***************************************************************************)
FlagOf(r) ==
    Some([committed |-> TRUE, donationId |-> r.id, type |-> r.type,
          committedAt |-> ISONow])

C23_CompleteMoneyAlwaysAnnounces ==
    \A r \in Range(records) :
        LET res == completeMoney(World, r.id)
        IN  /\ res.err = "" /\ res.ret = Some(r)
            /\ res.W.events = <<[id |-> r.id, type |-> r.type]>>
            /\ IF SubRows(money, r.id) = {}
               THEN res.W.thanks = thanks /\ SameTables(res.W, World)
               ELSE res.W.thanks = FlagOf(r)

\* completeMoney on the id of a food donation: the event of it, the flag of
\* another donation
C23_Witness ==
    /\ last.op = "completeMoney" /\ last.ret # Null
    /\ last.events = <<[id |-> last.args[1], type |-> "food"]>>
    /\ SubRows(money, last.args[1]) = {}
    /\ thanks # Null /\ Get(thanks).donationId # last.args[1]

(***************************************************************************)
(* C27.  With an admin session, approveRecord and rejectRecord on an id    *)
(* without master row return null and change nothing; on a stored id they  *)
(* change that one master row and no sub-table row; getRecordById on an    *)
(* unknown id returns null.                                                *)
(***************************************************************************)
IsStored(id) == \E r \in Range(records) : r.id = id

OnlyMasterRowChanged(res, id) ==
    /\ res.err = "" /\ res.ret # Null /\ Get(res.ret).id = id
    /\ Len(res.W.records) = Len(records)
    /\ \A i \in 1..Len(records) :
          res.W.records[i] = IF records[i].id = id THEN Get(res.ret) ELSE records[i]
    /\ res.W.food = food /\ res.W.clothes = clothes /\ res.W.money = money
    /\ res.W.thanks = thanks /\ res.W.events = <<>>

C27_ReviewTouchesOneMasterRow ==
    /\ \A id \in IdArgs : ~IsStored(id) => getRecordById(World, id) = Null
    /\ ~NoAdminSession =>
          \A id \in IdArgs, reason \in ReasonInputs :
              LET approve == approveRecord(World, id)
                  reject == rejectRecord(World, id, reason)
              IN  IF IsStored(id)
                  THEN OnlyMasterRowChanged(approve, id) /\ OnlyMasterRowChanged(reject, id)
                  ELSE /\ approve.err = "" /\ approve.ret = Null /\ NoEffect(approve)
                       /\ reject.err = "" /\ reject.ret = Null /\ NoEffect(reject)

\* the admin has just rejected an id that was never generated, next to two
\* stored donations
C27_Witness ==
    /\ last.op = "rejectRecord" /\ last.err = "" /\ last.ret = Null
    /\ ~IsStored(last.args[1])
    /\ ~NoAdminSession
    /\ Len(records) = 2

(***************************************************************************)
(* C28.  cancelPendingMoney(id) removes the master row of that id and      *)
(* every money row referencing it, whatever the money row's status and the *)
(* master row's approval state and with or without a session; it is a      *)
(* no-op for an unknown id and touches neither the food nor the apparel    *)
(* table.                                                                  *)
(***************************************************************************)
C28_CancelIsUnconditional ==
    \A id \in IdArgs :
        LET res == cancelPendingMoney(World, id)
        IN  /\ res.err = ""
            /\ \A r \in Range(res.W.records) : r.id # id
            /\ \A s \in Range(res.W.money) : s.donation_id # id
            /\ KeepsOthers(records, res.W.records, LAMBDA r : r.id = id)
            /\ KeepsOthers(money, res.W.money, LAMBDA r : r.donation_id = id)
            /\ res.W.food = food /\ res.W.clothes = clothes
            /\ res.W.session = session /\ res.W.thanks = thanks /\ res.W.events = <<>>
            /\ (~IsStored(id) /\ SubRows(money, id) = {}) => NoEffect(res)

\* a completed money donation (its thanks flag is still set) has been
\* cancelled with no session stored; another donation is kept
C28_Witness ==
    /\ last.op = "cancelPendingMoney"
    /\ session = Null
    /\ thanks # Null /\ Get(thanks).donationId = last.args[1]
    /\ Get(thanks).type = "money"
    /\ ~IsStored(last.args[1]) /\ SubRows(money, last.args[1]) = {}
    /\ Len(records) = 1

(***************************************************************************)
(* C29.  Single-admin rule: after the module-load seed on an empty user    *)
(* store and any sequence of registerUser, loginUser, logoutUser,          *)
(* promoteToAdmin and further seed runs, exactly one account has role      *)
(* admin; the seed adds nothing when an admin is present, and              *)
(* promoteToAdmin returns false and changes nothing.                       *)
(***************************************************************************)
Admins == {i \in 1..Len(users) : users[i].role = "admin"}

C29_SingleAdmin ==
    /\ Cardinality(Admins) = 1
    /\ _seedAdminIfNeeded(World) = World
    /\ \A e \in AuthEmails :
          LET res == promoteToAdmin(World, e.typed)
          IN  res.err = "" /\ res.ret = Some(FALSE) /\ res.W = World

\* promoteToAdmin has just been refused for a registered donor account
C29_Witness ==
    /\ last.op = "promoteToAdmin" /\ last.ret = Some(FALSE)
    /\ last.args[1] = <<"d", "@", "X">>
    /\ \E u \in Range(users) : u.email = <<"d", "@", "x">> /\ u.role = "user"
    /\ Len(users) = 3

(***************************************************************************)
(* C30.  registerUser with an email that, trimmed and lower-cased, is the  *)
(* email of a stored account returns success = false and changes neither   *)
(* the user table nor the session; otherwise it appends one account with   *)
(* role user and starts a session for it; so no two accounts share an      *)
(* email.                                                                  *)
(***************************************************************************)
C30_RegisterRejectsDuplicateEmail ==
    /\ \A i, j \in 1..Len(users) : users[i].email = users[j].email => i = j
    /\ \A e \in AuthEmails, password \in AuthPasswords :
          LET res == registerUser(World, e.typed, password)
              A == res.W
          IN  /\ res.err = ""
              /\ IF \E u \in Range(users) : u.email = e.stored
                 THEN /\ Get(res.ret).success = FALSE
                      /\ A.users = users /\ A.session = session
                 ELSE /\ Get(res.ret).success = TRUE
                      /\ Len(A.users) = Len(users) + 1
                      /\ SubSeq(A.users, 1, Len(users)) = users
                      /\ A.users[Len(A.users)].email = e.stored
                      /\ A.users[Len(A.users)].role = "user"
                      /\ A.session # Null
                      /\ Get(A.session).userId = A.users[Len(A.users)].id
                      /\ Get(A.session).email = e.stored
                      /\ Get(A.session).role = "user"

\* a second registration of d@x, typed in another case, has just been refused
\* while another account is logged in
C30_Witness ==
    /\ last.op = "registerUser" /\ Get(last.ret).success = FALSE
    /\ last.args[1] = <<"d", "@", "X">>
    /\ \E u \in Range(users) : u.email = <<"d", "@", "x">>
    /\ session # Null /\ Get(session).email = <<"e", "@", "y">>

(***************************************************************************)
(* C26.  Notification mailbox.  addNotification adds one notification with *)
(* read = false for the given user and changes no other; in every state    *)
(* getUnreadCountForUser(u) is the number of entries of                    *)
(* getNotificationsForUser(u) with read = false; markAllNotificationsRead  *)
(* of u makes that count 0 and leaves the notifications of the other users *)
(* unchanged; markNotificationRead(id) sets read on that one notification, *)
(* is idempotent and is a no-op for an unknown id; no operation sets read  *)
(* back to false.                                                          *)
(***************************************************************************)
Unread(rows) == {i \in 1..Len(rows) : ~rows[i].read}

\* what was read in the stored mailbox is read in the mailbox of W
ReadKept(W) ==
    \A n \in Range(notifs) :
        n.read => \E k \in Range(W.notifs) : k.id = n.id /\ k.read

OnlyMailboxChanged(W) ==
    /\ SameTables(W, World)
    /\ W.users = users /\ W.session = session /\ W.thanks = thanks

AddsOneUnread(in) ==
    LET res == addNotification(World, in.userId, _genId("dr", 1), in.type, in.message,
                               in.reason)
        after == res.W.notifs
    IN  /\ res.err = "" /\ OnlyMailboxChanged(res.W) /\ ReadKept(res.W)
        /\ \E i \in 1..Len(after) :
              /\ RemoveAt(after, i) = notifs
              /\ after[i].userId = in.userId /\ after[i].read = FALSE
              /\ after[i].type = in.type
              /\ \A n \in Range(notifs) : n.id # after[i].id

MarksAllOf(u) ==
    LET res == markAllNotificationsRead(World, u)
        after == res.W.notifs
    IN  /\ res.err = "" /\ OnlyMailboxChanged(res.W) /\ ReadKept(res.W)
        /\ getUnreadCountForUser(res.W, u) = 0
        /\ Len(after) = Len(notifs)
        /\ \A i \in 1..Len(notifs) :
              after[i] = IF notifs[i].userId = u THEN [notifs[i] EXCEPT !.read = TRUE]
                         ELSE notifs[i]

MarksOne(id) ==
    LET res == markNotificationRead(World, id)
        after == res.W.notifs
    IN  /\ res.err = "" /\ OnlyMailboxChanged(res.W) /\ ReadKept(res.W)
        /\ Len(after) = Len(notifs)
        /\ \A i \in 1..Len(notifs) :
              after[i] = IF notifs[i].id = id THEN [notifs[i] EXCEPT !.read = TRUE]
                         ELSE notifs[i]
        /\ markNotificationRead(res.W, id).W = res.W
        /\ (\A n \in Range(notifs) : n.id # id) => res.W = World

C26_NotificationMailbox ==
    /\ \A u \in UserIds \cup {ADMIN_SEED_ID} :
          /\ getUnreadCountForUser(World, u) =
                Cardinality(Unread(getNotificationsForUser(World, u)))
          /\ getUnreadCountForUser(World, u) =
                Cardinality({i \in Unread(notifs) : notifs[i].userId = u})
          /\ MarksAllOf(u)
    /\ \A in \in NotificationInputs : AddsOneUnread(in)
    /\ \A id \in NotificationIds : MarksOne(id)

\* the mailbox of one donor has just been marked read; another donor keeps an
\* unread notification
C26_Witness ==
    /\ last.op = "markAllNotificationsRead"
    /\ Len(notifs) = 3
    /\ \E n \in Range(notifs) : n.userId = last.args[1] /\ n.read
    /\ \E n \in Range(notifs) : n.userId # last.args[1] /\ ~n.read
    /\ getUnreadCountForUser(World, last.args[1]) = 0

(***************************************************************************)
(* C24.  When the write of the thanks flag to sessionStorage fails, the    *)
(* failure is swallowed: saveFoodRecord, saveApparelRecord and             *)
(* completeMoney still leave both rows stored, still dispatch the success  *)
(* event and still return the record; only the flag is missing.            *)
(***************************************************************************)
\* res is the call with the flag write failing, ok the same call with the
\* flag write succeeding, table the sub-table of the call
OnlyFlagMissing(res, ok, table) ==
    LET rec == Get(res.ret)
    IN  /\ res.err = "" /\ res.ret # Null /\ res.ret = ok.ret
        /\ getRecordById(res.W, rec.id) = Some(rec)
        /\ SubRows(res.W[table], rec.id) # {}
        /\ SameTables(res.W, ok.W)
        /\ res.W.events = <<[id |-> rec.id, type |-> rec.type]>>
        /\ res.W.events = ok.W.events
        /\ res.W.thanks = thanks
        /\ ok.W.thanks = FlagOf(rec)

Working == [World EXCEPT !.sessionStorageOk = TRUE]

C24_FlagFailureIsSwallowed ==
    ~sessionStorageOk =>
        /\ \A in \in FoodInputs :
              OnlyFlagMissing(saveFoodRecord(World, in.userId, in.rice, in.veg),
                              saveFoodRecord(Working, in.userId, in.rice, in.veg), "food")
        /\ \A in \in FixtureApparel :
              OnlyFlagMissing(saveApparelRecord(World, in.userId, in.age),
                              saveApparelRecord(Working, in.userId, in.age), "clothes")
        /\ \A r \in Range(records) :
              SubRows(money, r.id) # {} =>
                  OnlyFlagMissing(completeMoney(World, r.id),
                                  completeMoney(Working, r.id), "money")

\* a food donation was stored and announced while sessionStorage refused the
\* flag
C24_Witness ==
    /\ last.op = "saveFoodRecord" /\ last.ret # Null
    /\ ~sessionStorageOk
    /\ last.events = <<[id |-> Get(last.ret).id, type |-> "food"]>>
    /\ getRecordById(World, Get(last.ret).id) = last.ret
    /\ SubRows(food, Get(last.ret).id) # {}
    /\ thanks = Null

(***************************************************************************)
(* C21.  The thanks flag is written for a donation only when commit        *)
(* verification succeeded: at the moment of writing, the master row and a  *)
(* row of the operation's sub-table referencing it are both stored; this   *)
(* holds for saveFoodRecord, saveApparelRecord and completeMoney, and the  *)
(* flag names that donation's id and type.  Stated for the flag of either  *)
(* tab: a step that changes a flag ends with the pair stored.              *)
(***************************************************************************)
\* the flag names a stored master row of id, with a row in that sub-table
FlagNamesStoredPair(flag, id, masterRows, subRows) ==
    /\ flag # Null
    /\ Get(flag).donationId = id /\ Get(flag).committed
    /\ \E r \in Range(masterRows) : r.id = id /\ r.type = Get(flag).type
    /\ SubRows(subRows, id) # {}

FlagStep ==
    /\ thanks' # thanks =>
          \/ /\ last'.op = "saveFoodRecord"
             /\ FlagNamesStoredPair(thanks', Get(last'.ret).id, records', food')
          \/ /\ last'.op = "saveApparelRecord"
             /\ FlagNamesStoredPair(thanks', Get(last'.ret).id, records', clothes')
          \/ /\ last'.op = "completeMoney"
             /\ FlagNamesStoredPair(thanks', last'.args[1], records', money')
          \/ /\ last'.op = "saveMoneyRecord"
             /\ FlagNamesStoredPair(thanks', Get(last'.ret).record.id, records', money')
    /\ tab'.thanks # tab.thanks =>
          /\ tab'.ret # Null
          /\ FlagNamesStoredPair(tab'.thanks, Get(tab'.ret).id, records', food')

FailedCommitStep ==
    (/\ tab.pc = "food_written" /\ tab'.pc = "idle"
     /\ \/ ~IsStored(Get(tab.record).id)
        \/ SubRows(food, Get(tab.record).id) = {})
        => /\ tab'.ret = tab.record
           /\ tab'.thanks = tab.thanks
           /\ tab'.events = <<>>

C22_FailedCommitIsSilent == [][FailedCommitStep]_vars

(***************************************************************************)
(* C25.  Two tabs that interleave their whole-table load and save steps    *)
(* lose updates silently: no call reports an error, and a stored row       *)
(* leaves its table only by cancelPendingMoney on its donation or by the   *)
(* save of a snapshot that was loaded before the row was written.  Such    *)
(* an interleaving of two creates is reachable: one of the two new master  *)
(* rows is stored, and the money row of the other is left without master.  *)
(***************************************************************************)
LossStep ==
    /\ last'.err = ""
    /\ \A r \in Range(records) :
          (\A k \in Range(records') : k.id # r.id) =>
              IF tab' = tab
              THEN last'.op = "cancelPendingMoney" /\ last'.args[1] = r.id
              ELSE tab.pc = "master" /\ r \notin Range(tab.masterRows)
    /\ \A s \in Range(money) :
          (\A k \in Range(money') : k.id # s.id) =>
              IF tab' = tab
              THEN last'.op = "cancelPendingMoney" /\ last'.args[1] = s.donation_id
              ELSE tab.pc = "money" /\ s \notin Range(tab.moneyRows)

C25_OnlyStaleSnapshotsLoseRows == [][LossStep]_vars

\* both creates have returned; the master row the first tab was given is not
\* stored, its money row is
C25_Witness ==
    /\ tab.pc = "idle" /\ genCount = 4
    /\ last.op = "createPendingMoney" /\ last.err = "" /\ last.ret # Null
    /\ Len(records) = 1 /\ Len(money) = 2
    /\ ~IsStored(Get(last.ret).record.id)
    /\ SubRows(money, Get(last.ret).record.id) # {}

(***************************************************************************)
(* C31.  loginUser replaces the stored session only when the email, trimmed *)
(* and lower-cased, is the email of an account and the hash of the password *)
(* is the stored one; on an unknown email or a wrong password it returns    *)
(* success = false and leaves the session (present or absent) and the user  *)
(* table unchanged; after logoutUser getSession returns null, and a null    *)
(* session ends only by a successful loginUser or registerUser.             *)
(***************************************************************************)
LoginOutcome ==
    \A e \in AuthEmails, password \in AuthPasswords :
        LET res == loginUser(World, e.typed, password)
            matching == {u \in Range(users) :
                            u.email = e.stored /\ u.password = _hashPassword(password)}
        IN  /\ res.err = "" /\ res.W.users = users
            /\ IF matching = {}
               THEN Get(res.ret).success = FALSE /\ res.W = World
               ELSE /\ Get(res.ret).success = TRUE
                    /\ res.W = [World EXCEPT !.session = res.W.session]
                    /\ \E u \in matching :
                          /\ Get(res.W.session).userId = u.id
                          /\ Get(res.W.session).email = u.email
                          /\ Get(res.W.session).role = u.role

SessionStep ==
    /\ last'.op = "logoutUser" => getSession(World)' = Null
    /\ session' # session =>
          \/ last'.op = "logoutUser"
          \/ /\ last'.op \in {"loginUser", "registerUser"}
             /\ Get(last'.ret).success = TRUE

C31_LoginReplacesSessionOnlyOnMatch ==
    /\ []LoginOutcome
    /\ [][SessionStep]_vars

\* a login on a registered email with a wrong password has just been refused
\* while another account is logged in: that session is still the stored one
C31_Witness ==
    /\ last.op = "loginUser" /\ Get(last.ret).success = FALSE
    /\ last.args = <<<<"d", "@", "X">>, ADMIN_PASSWORD>>
    /\ \E u \in Range(users) : u.email = <<"d", "@", "x">>
    /\ session # Null /\ Get(session).email = <<"e", "@", "y">>

(***************************************************************************)
(* SpecConsole: the accounts with the developer console at hand.  The      *)
(* console runs promoteToAdmin, and the user store can be lost (the key    *)
(* removed or unparsable): _loadUsers then reads an empty table, so the    *)
(* next calls see no administrator until a page load seeds one.            *)
(***************************************************************************)
ConsoleEmails == {e \in AuthEmails : e.stored # <<"e", "@", "y">>}

ConsoleRegister ==
    \E e \in ConsoleEmails :
        Call("registerUser", <<e.typed, DonorPassword>>,
             registerUser(World, e.typed, DonorPassword))

ConsoleLogin ==
    \E e \in ConsoleEmails, password \in AuthPasswords :
        Call("loginUser", <<e.typed, password>>, loginUser(World, e.typed, password))

ConsolePromote ==
    \E e \in ConsoleEmails :
        Call("promoteToAdmin", <<e.typed>>, promoteToAdmin(World, e.typed))

UserStoreLost ==
    /\ users # <<>>
    /\ Call("userStoreLost", <<>>, Returns(_saveUsers(World, <<>>), Null))

ConsoleFoodRecord == SaveFoodRecordOf(FixtureFood, MaxConsoleDonations)

NextConsole ==
    \/ ConsoleRegister
    \/ ConsoleLogin
    \/ LogoutUser
    \/ ConsolePromote
    \/ PageLoad
    \/ UserStoreLost
    \/ ConsoleFoodRecord
    \/ ApproveRecord

SpecConsole == Init /\ [][NextConsole]_vars

(***************************************************************************)
(* C32.  A stored session of role admin arises only from a successful      *)
(* loginUser on an account whose stored role is admin at that time;        *)
(* registerUser starts no admin session; the role of a session is a        *)
(* snapshot: after promoteToAdmin has promoted the logged-in account,      *)
(* approveRecord still throws and changes nothing, until that account      *)
(* logs in again.                                                          *)
(***************************************************************************)
RegisterStartsDonorSession ==
    \A e \in ConsoleEmails :
        LET res == registerUser(World, e.typed, DonorPassword)
        IN  res.W.session # session => Get(res.W.session).role = "user"

RoleIsSnapshot ==
    \A e \in ConsoleEmails :
        LET res == promoteToAdmin(World, e.typed)
            again == loginUser(res.W, e.typed, DonorPassword)
        IN  (/\ res.ret = Some(TRUE)
             /\ session # Null /\ Get(session).email = e.stored) =>
                /\ res.W.session = session /\ Get(session).role = "user"
                /\ \E u \in Range(res.W.users) : u.email = e.stored /\ u.role = "admin"
                /\ \A id \in IdArgs :
                      /\ approveRecord(res.W, id).err = "Error"
                      /\ approveRecord(res.W, id).W = res.W
                /\ Get(again.ret).success = TRUE
                /\ Get(again.W.session).role = "admin"
                /\ \A r \in Range(records) :
                      /\ approveRecord(again.W, r.id).err = ""
                      /\ ApprovedOf(approveRecord(again.W, r.id).W, r.id) = Some(TRUE)

AdminSessionStep ==
    (/\ session' # session /\ session' # Null
     /\ Get(session').role = "admin") =>
        /\ last'.op = "loginUser" /\ Get(last'.ret).success = TRUE
        /\ \E u \in Range(users) :
              /\ u.email = Get(session').email /\ u.role = "admin"
              /\ u.password = _hashPassword(last'.args[2])

C32_AdminSessionOnlyByAdminLogin ==
    /\ [](RegisterStartsDonorSession /\ RoleIsSnapshot)
    /\ [][AdminSessionStep]_vars

\* the logged-in donor account has just been promoted and a donation waits
\* for review: the session still says user, and approveRecord throws
C32_Witness ==
    /\ last.op = "promoteToAdmin" /\ last.ret = Some(TRUE)
    /\ session # Null /\ Get(session).role = "user"
    /\ \E u \in Range(users) : u.email = Get(session).email /\ u.role = "admin"
    /\ records # <<>>
    /\ \A r \in Range(records) : approveRecord(World, r.id).err = "Error"

(***************************************************************************)
(* C33 (as claimed).  The success event is raised at most once for each    *)
(* donation id: when the last call has raised the event for an id, no      *)
(* completeMoney call raises it for that id again; so a second             *)
(* completeMoney on a confirmed money donation raises no event.            *)
(***************************************************************************)
C33_SuccessEventAtMostOnce ==
    \A raised \in Range(last.events), id \in IdArgs :
        \A e \in Range(completeMoney(World, id).W.events) : e.id # raised.id

(***************************************************************************)
(* C34 (as claimed).  Every success event raised by completeMoney is for a *)
(* master record of type money whose money row has status = true when the  *)
(* event is raised; completeMoney on the id of a food or apparel donation  *)
(* raises no event.                                                        *)
(***************************************************************************)
C34_CompleteMoneyAnnouncesConfirmedMoney ==
    \A id \in IdArgs :
        LET res == completeMoney(World, id)
        IN  \A e \in Range(res.W.events) :
                /\ e.id = id /\ e.type = "money"
                /\ \E r \in Range(res.W.records) : r.id = id /\ r.type = "money"
                /\ \E m \in Range(res.W.money) : m.donation_id = id /\ m.status

(***************************************************************************)
(* SpecMoney: the life of a money donation: created pending or by the      *)
(* legacy wrapper, completed, corrected, cancelled, deleted.               *)
(***************************************************************************)
MoneyPending == CreatePendingMoneyOf(FixtureMoney, MaxMoneyDonations)
MoneySaved == SaveMoneyRecordOf(FixtureMoney, MaxMoneyDonations)
MoneyFoodRecord == SaveFoodRecordOf(FixtureFood, MaxMoneyDonations)

NextMoney ==
    \/ MoneyPending
    \/ MoneySaved
    \/ MoneyFoodRecord
    \/ CompleteMoney
    \/ CancelPendingMoney
    \/ UpdateMoneyRecord
    \/ DeleteRecord

SpecMoney == Init /\ [][NextMoney]_vars

(***************************************************************************)
(* C35.  Money confirmation is monotonic: a money row is created with      *)
(* status = false (by saveMoneyRecord: created and completed in the same   *)
(* call); only completeMoney on its donation sets status to true; no       *)
(* operation sets a true status back to false; a confirmed row leaves the  *)
(* table only by cancelPendingMoney or deleteRecord on its donation.       *)
(***************************************************************************)
ConfirmationStep ==
    /\ \A new \in Range(money') :
          LET old == {o \in Range(money) : o.id = new.id}
          IN  IF old = {}
              THEN \/ ~new.status /\ last'.op = "createPendingMoney"
                   \/ new.status /\ last'.op = "saveMoneyRecord"
              ELSE \A o \in old :
                      /\ o.status => new.status
                      /\ (~o.status /\ new.status) =>
                            /\ last'.op = "completeMoney"
                            /\ last'.args[1] = new.donation_id
    /\ \A o \in Range(money) :
          (o.status /\ \A new \in Range(money') : new.id # o.id) =>
              /\ last'.op \in {"cancelPendingMoney", "deleteRecord"}
              /\ last'.args[1] = o.donation_id

C35_ConfirmationIsMonotonic == [][ConfirmationStep]_vars

\* the transaction id of a confirmed money row has just been corrected: the
\* row is still confirmed
C35_Witness ==
    /\ last.op = "updateMoneyRecord" /\ last.ret # Null
    /\ \E m \in Range(money) :
          /\ m.donation_id = last.args[1] /\ m.status
          /\ m.transaction_id = last.args[2]

(***************************************************************************)
(* SpecFood: food donations with quantities as typed, next to the numbers  *)
(* parseInt(text, 10) makes of them ({} is NaN), their corrections and     *)
(* their approval.                                                         *)
(***************************************************************************)
FoodQuantities ==
    {[rice |-> <<"5">>, veg |-> <<"3">>, riceQty |-> Some(5), vegQty |-> Some(3)],
     [rice |-> <<"-", "7">>, veg |-> <<" ", "-", "1", "k">>,
      riceQty |-> Some(0 - 7), vegQty |-> Some(0 - 1)],
     [rice |-> <<"-", "2">>, veg |-> <<"k", "g">>, riceQty |-> Some(0 - 2), vegQty |-> Null]}

FoodCreate ==
    \E q \in FoodQuantities :
        /\ CanCreate(MaxFoodDonations)
        /\ Call("saveFoodRecord", <<<<"u", 1>>, q.rice, q.veg>>,
                saveFoodRecord(World, <<"u", 1>>, q.rice, q.veg))

FoodUpdate ==
    \E id \in IdArgs, q \in FoodQuantities :
        Call("updateFoodRecord", <<id, q.rice, q.veg>>,
             updateFoodRecord(World, id, q.rice, q.veg))

NextFood ==
    \/ FoodCreate
    \/ FoodUpdate
    \/ AdminLogin
    \/ ApproveRecord

SpecFood == Init /\ [][NextFood]_vars

(***************************************************************************)
(* C36.  saveFoodRecord and updateFoodRecord store the integer-parsed      *)
(* quantities as given and reject nothing: a negative rice or vegetable    *)
(* value is persisted, and getApprovedInventory adds the stored values as  *)
(* they are, so rice_kg and veg_kg are negative after the approval of such *)
(* a donation.                                                             *)
(***************************************************************************)
C36_NegativeQuantitiesAreStored ==
    /\ \A q \in FoodQuantities :
          LET res == saveFoodRecord(World, <<"u", 1>>, q.rice, q.veg)
          IN  /\ res.err = "" /\ res.ret # Null
              /\ \E i \in SubRows(res.W.food, Get(res.ret).id) :
                    /\ res.W.food[i].rice_qty = q.riceQty
                    /\ res.W.food[i].veg_qty = q.vegQty
    /\ \A s \in Range(food), q \in FoodQuantities :
          LET res == updateFoodRecord(World, s.donation_id, q.rice, q.veg)
          IN  /\ res.err = "" /\ res.ret # Null
              /\ \E i \in SubRows(res.W.food, s.donation_id) :
                    /\ res.W.food[i].id = s.id
                    /\ res.W.food[i].rice_qty = q.riceQty
                    /\ res.W.food[i].veg_qty = q.vegQty
    /\ LET inv == getApprovedInventory(World)
           rice == [s \in ApprovedFoodRows |-> IF s.rice_qty = Null THEN 0 ELSE Get(s.rice_qty)]
           veg == [s \in ApprovedFoodRows |-> IF s.veg_qty = Null THEN 0 ELSE Get(s.veg_qty)]
       IN  inv.rice_kg = SumOver(ApprovedFoodRows, rice)
              /\ inv.veg_kg = SumOver(ApprovedFoodRows, veg)

\* a food donation stored with negative quantities has just been approved:
\* the inventory is negative
C36_Witness ==
    /\ last.op = "approveRecord" /\ last.ret # Null
    /\ \E i \in SubRows(food, last.args[1]) :
          food[i].rice_qty = Some(0 - 7) /\ food[i].veg_qty = Some(0 - 1)
    /\ getApprovedInventory(World).rice_kg < 0
    /\ getApprovedInventory(World).veg_kg < 0

(***************************************************************************)
(* The foodForm store.  submit() is async: the part before the await runs  *)
(* in the call, the rest when its timer fires; rice and veg are locals of  *)
(* the invocation.                                                         *)
(***************************************************************************)
\* window._dmsSession.userId
SessionUserId(W) == Get(W.session).userId

foodForm_loadRecords(W) ==
    LET masters == Filter(getRecordsByUser(W, SessionUserId(W)), LAMBDA r : r.type = "food")
        Row(r) == LET sub == getFoodByDonationId(W, r.id)
                  IN  [id |-> r.id,
                       rice_qty |-> IF sub = Null THEN 0 ELSE OrZero(Get(sub).rice_qty),
                       veg_qty |-> IF sub = Null THEN 0 ELSE OrZero(Get(sub).veg_qty)]
    IN  IF W.session = Null THEN W
        ELSE [W EXCEPT !.ui.foodForm.records =
                 [i \in 1..(IF Len(masters) < 10 THEN Len(masters) ELSE 10) |->
                     Row(masters[i])]]

\* submit() up to its await
foodForm_submit(W) ==
    LET rice == parseInt(W.ui.foodForm.rice)
        veg == parseInt(W.ui.foodForm.vegetables)
        riceBad == rice = Null \/ OrZero(rice) < 0
        vegBad == veg = Null \/ OrZero(veg) < 0
        W1 == [W EXCEPT !.ui.foodForm.riceError = IF riceBad THEN "invalid" ELSE "",
                        !.ui.foodForm.vegError = IF vegBad THEN "invalid" ELSE ""]
    IN  IF riceBad \/ vegBad THEN Returns(W1, Null)
        ELSE IF Get(rice) = 0 /\ Get(veg) = 0 THEN Returns(W1, Null)
        ELSE Returns([W1 EXCEPT !.ui.foodForm.isLoading = TRUE,
                                !.ui.foodForm.suspended =
                                    Append(@, [rice |-> Get(rice), veg |-> Get(veg)])], Null)

\* submit() after its await, for the invocation that has waited longest
foodForm_submitResumed(W) ==
    LET locals == Head(W.ui.foodForm.suspended)
        done == saveFoodRecord(W, SessionUserId(W), NumText(locals.rice), NumText(locals.veg))
        W1 == [done.W EXCEPT !.ui.foodForm.suspended = Tail(@),
                             !.ui.foodForm.isLoading = FALSE,
                             !.ui.foodForm.rice = <<>>,
                             !.ui.foodForm.vegetables = <<>>,
                             !.ui.foodForm.riceError = "",
                             !.ui.foodForm.vegError = ""]
    IN  Returns(foodForm_loadRecords(W1), Null)

(***************************************************************************)
(* The moneyForm store.                                                    *)
(***************************************************************************)
\* null passed as a donation id: the id of no row
NullId == <<"null", 0>>

moneyForm_loadRecords(W) ==
    LET masters == Filter(getRecordsByUser(W, SessionUserId(W)), LAMBDA r : r.type = "money")
        Row(r) == LET sub == getMoneyByDonationId(W, r.id)
                  IN  [id |-> r.id, status |-> IF sub = Null THEN FALSE ELSE Get(sub).status]
    IN  IF W.session = Null THEN W
        ELSE [W EXCEPT !.ui.moneyForm.records =
                 [i \in 1..(IF Len(masters) < 10 THEN Len(masters) ELSE 10) |->
                     Row(masters[i])]]

\* startScanner(): granted says whether getUserMedia gave a stream
moneyForm_startScanner(W, granted) ==
    IF granted
    THEN Returns([W EXCEPT !.ui.moneyForm._mediaStream = TRUE,
                           !.ui.moneyForm.cameraError = FALSE,
                           !.ui.moneyForm.isLoading = FALSE,
                           !.ui.moneyForm.state = "scanning"], Null)
    ELSE Returns([W EXCEPT !.ui.moneyForm.isLoading = FALSE,
                           !.ui.moneyForm.cameraError = TRUE], Null)

moneyForm_stopScanner(W) == [W EXCEPT !.ui.moneyForm._mediaStream = FALSE]

moneyForm__onQRDetected(W, payload) ==
    LET done == createPendingMoney(W, SessionUserId(W), payload)
    IN  Returns([done.W EXCEPT !.ui.moneyForm._pendingRecordId = Some(Get(done.ret).record.id),
                               !.ui.moneyForm.detectedCode = Some(payload),
                               !.ui.moneyForm.qrPayload = payload,
                               !.ui.moneyForm.txnRef = Some(Get(done.ret).transactionId),
                               !.ui.moneyForm.state = "detected"], Null)

\* a frame of _scanLoop in which jsQR reads a code
moneyForm__scanLoop(W, payload) ==
    moneyForm__onQRDetected(moneyForm_stopScanner(W), payload)

\* confirmTransaction() up to its await; an empty payload is falsy
moneyForm_confirmTransaction(W) ==
    LET store == W.ui.moneyForm
    IN  IF store.detectedCode = Null \/ Get(store.detectedCode) = <<>>
           \/ store._pendingRecordId = Null
        THEN Returns(W, Null)
        ELSE Returns([W EXCEPT !.ui.moneyForm.isLoading = TRUE,
                               !.ui.moneyForm.suspended = @ + 1], Null)

\* confirmTransaction() after its await
moneyForm_confirmTransactionResumed(W) ==
    LET store == W.ui.moneyForm
        id == IF store._pendingRecordId = Null THEN NullId ELSE Get(store._pendingRecordId)
        done == completeMoney(W, id)
        W1 == [done.W EXCEPT !.ui.moneyForm.suspended = @ - 1,
                             !.ui.moneyForm.isLoading = FALSE,
                             !.ui.moneyForm.detectedCode = Null,
                             !.ui.moneyForm._pendingRecordId = Null]
    IN  Returns(moneyForm_loadRecords(W1), Null)

moneyForm_retryScanner(W) ==
    LET store == W.ui.moneyForm
        W1 == IF store._pendingRecordId # Null
              THEN [cancelPendingMoney(W, Get(store._pendingRecordId)).W
                       EXCEPT !.ui.moneyForm._pendingRecordId = Null]
              ELSE W
    IN  Returns([W1 EXCEPT !.ui.moneyForm.detectedCode = Null,
                           !.ui.moneyForm.state = "idle"], Null)

moneyForm_resetToIdle(W) ==
    Returns([W EXCEPT !.ui.moneyForm.detectedCode = Null,
                      !.ui.moneyForm._pendingRecordId = Null,
                      !.ui.moneyForm.state = "idle"], Null)

(***************************************************************************)
(* SpecDashboard: the admin dashboard over donations of two donors.  The   *)
(* store lists what loadAll read; donations are created, deleted and       *)
(* cancelled by calls from elsewhere (a donor's form, another tab).        *)
(***************************************************************************)
DashboardReasons == {<<" ", " ">>, <<" ", "o", "l", "d", " ">>}

\* the ids the dashboard's buttons pass: those of the listed rows; and any id
DashboardIds == {r.id : r \in Range(ui.adminDashboard.records)} \cup IdArgs

DashboardFoodRecord == SaveFoodRecordOf(FixtureFood, MaxDashboardDonations)
DashboardPendingMoney == CreatePendingMoneyOf(FixtureMoney, MaxDashboardDonations)

DashboardInit == Call("adminDashboard.init", <<>>, Returns(adminDashboard_loadAll(World), Null))

DashboardApprove ==
    \E id \in DashboardIds :
        /\ Len(notifs) < MaxDashboardNotifications
        /\ Call("adminDashboard.approve", <<id>>, adminDashboard_approve(World, id))

DashboardReject ==
    \E id \in DashboardIds :
        Call("adminDashboard.reject", <<id>>, adminDashboard_reject(World, id))

\* the reason typed into the open modal (x-model)
DashboardTypeReason ==
    /\ ui.adminDashboard.rejectModalOpen
    /\ \E text \in DashboardReasons :
          Call("rejectReason", <<text>>,
               Returns([World EXCEPT !.ui.adminDashboard.rejectReason = text], Null))

DashboardConfirmReject ==
    /\ ui.adminDashboard.rejectModalOpen
    /\ Len(notifs) < MaxDashboardNotifications
    /\ Call("adminDashboard.confirmReject", <<>>, adminDashboard_confirmReject(World))

DashboardCancelReject ==
    /\ ui.adminDashboard.rejectModalOpen
    /\ Call("adminDashboard.cancelReject", <<>>,
            Returns(adminDashboard_cancelReject(World), Null))

DashboardDeleteRec ==
    \E id \in DashboardIds, confirmed \in BOOLEAN :
        Call("adminDashboard.deleteRec", <<id, confirmed>>,
             adminDashboard_deleteRec(World, id, confirmed))

NextDashboard ==
    \/ DashboardFoodRecord
    \/ DashboardPendingMoney
    \/ AdminLogin
    \/ LogoutUser
    \/ DashboardInit
    \/ DashboardApprove
    \/ DashboardReject
    \/ DashboardTypeReason
    \/ DashboardConfirmReject
    \/ DashboardCancelReject
    \/ DashboardDeleteRec
    \/ DeleteRecord
    \/ CancelPendingMoney

SpecDashboard == Init /\ [][NextDashboard]_vars

(***************************************************************************)
(* C37 (as claimed).  Every notification of type approved or rejected      *)
(* written by the dashboard's approve and confirmReject names a donation   *)
(* that is stored in the master table and whose approved field that same   *)
(* action has set to true (respectively false); no notification is written *)
(* when approveRecord or rejectRecord throws or returns null; confirmReject *)
(* with a blank reason changes nothing in the store.                       *)
(***************************************************************************)
NotificationStep ==
    LET added == {n \in Range(notifs') : \A k \in Range(notifs) : k.id # n.id}
        byApprove == last'.op = "adminDashboard.approve"
        byReject == last'.op = "adminDashboard.confirmReject"
        target == IF byApprove THEN last'.args[1]
                  ELSE Get(ui.adminDashboard.rejectTargetId)
    IN  /\ \A n \in added :
              /\ byApprove \/ byReject
              /\ n.type = IF byApprove THEN "approved" ELSE "rejected"
              /\ n.donationId = target
              /\ \E r \in Range(records') :
                    r.id = target /\ r.approved = Some(byApprove)
        /\ (byApprove \/ byReject) =>
              /\ last'.err # "" => added = {}
              /\ (Trim(ui.adminDashboard.rejectReason) # <<>> \/ byApprove) =>
                    (~IsStored(target) => added = {})
        /\ (byReject /\ Trim(ui.adminDashboard.rejectReason) = <<>>) =>
              /\ SameTables([World EXCEPT !.records = records', !.food = food',
                                          !.clothes = clothes', !.money = money'], World)
              /\ notifs' = notifs

C37_DashboardNotifiesReviewedDonations == [][NotificationStep]_vars

(***************************************************************************)
(* SpecMailbox: donations, the notifications of their review, and their    *)
(* removal.                                                                *)
(***************************************************************************)
MailboxFoodRecord == SaveFoodRecordOf(FixtureFood, MaxMailboxDonations)
MailboxPendingMoney == CreatePendingMoneyOf(FixtureMoney, MaxMailboxDonations)

MailboxNotify ==
    \E i \in 1..Len(records), type \in {"approved", "rejected"} :
        /\ Len(notifs) < MaxMailboxNotifications
        /\ Call("addNotification", <<records[i].userId, records[i].id, type>>,
                addNotification(World, records[i].userId, records[i].id, type,
                                <<type, records[i].type>>, Null))

NextMailbox ==
    \/ MailboxFoodRecord
    \/ MailboxPendingMoney
    \/ MailboxNotify
    \/ MarkNotificationRead
    \/ DeleteRecord
    \/ CancelPendingMoney

SpecMailbox == Init /\ [][NextMailbox]_vars

(***************************************************************************)
(* C38.  deleteRecord and cancelPendingMoney leave the notifications table *)
(* unchanged: after the removal of a donation the notifications that name  *)
(* its id are still stored, still returned by getNotificationsForUser and  *)
(* still counted by getUnreadCountForUser for their user.                  *)
(***************************************************************************)
KeepsMailbox(W) ==
    /\ W.notifs = notifs
    /\ \A u \in UserIds :
          /\ getNotificationsForUser(W, u) = getNotificationsForUser(World, u)
          /\ getUnreadCountForUser(W, u) = getUnreadCountForUser(World, u)
          /\ \A n \in Range(notifs) :
                n.userId = u => n \in Range(getNotificationsForUser(W, u))

C38_RemovalKeepsNotifications ==
    \A id \in IdArgs \cup {n.donationId : n \in Range(notifs)} :
        /\ KeepsMailbox(deleteRecord(World, id).W)
        /\ KeepsMailbox(cancelPendingMoney(World, id).W)

\* a donation with an unread notification has just been deleted: its donor
\* still has the notification, and it is counted
C38_Witness ==
    /\ last.op = "deleteRecord" /\ ~IsStored(last.args[1])
    /\ \E n \in Range(notifs) :
          /\ n.donationId = last.args[1] /\ ~n.read
          /\ n \in Range(getNotificationsForUser(World, n.userId))
          /\ getUnreadCountForUser(World, n.userId) > 0

(***************************************************************************)
(* SpecForms: a donor at the food form and the money form.  The store      *)
(* methods are called as the page calls them, in any order the code does   *)
(* not exclude; a suspended invocation goes on when its timer fires.       *)
(***************************************************************************)
FormTexts ==
    {[rice |-> <<"5">>, vegetables |-> <<"3">>],
     [rice |-> <<"-", "2">>, vegetables |-> <<"0">>],
     [rice |-> <<"0">>, vegetables |-> <<"0">>]}
FormPayloads == {<<"u", "p", "i">>}

\* the donor types into the bound fields (x-model)
FoodFormType ==
    \E in \in FormTexts :
        Call("foodForm.rice", <<in.rice, in.vegetables>>,
             Returns([World EXCEPT !.ui.foodForm.rice = in.rice,
                                   !.ui.foodForm.vegetables = in.vegetables], Null))

FoodFormSubmit ==
    /\ session # Null
    /\ Len(ui.foodForm.suspended) < MaxSuspended
    /\ Call("foodForm.submit", <<>>, foodForm_submit(World))

FoodFormSubmitResumed ==
    /\ session # Null
    /\ ui.foodForm.suspended # <<>>
    /\ CanCreate(MaxFormsDonations)
    /\ Call("foodForm.submit resumed", <<>>, foodForm_submitResumed(World))

MoneyFormStartScanner ==
    \E granted \in BOOLEAN :
        Call("moneyForm.startScanner", <<granted>>, moneyForm_startScanner(World, granted))

MoneyFormScanLoop ==
    /\ session # Null
    /\ ui.moneyForm._mediaStream
    /\ CanCreate(MaxFormsDonations)
    /\ \E payload \in FormPayloads :
          Call("moneyForm._onQRDetected", <<payload>>, moneyForm__scanLoop(World, payload))

MoneyFormConfirmTransaction ==
    /\ ui.moneyForm.suspended < MaxSuspended
    /\ Call("moneyForm.confirmTransaction", <<>>, moneyForm_confirmTransaction(World))

MoneyFormConfirmTransactionResumed ==
    /\ session # Null
    /\ ui.moneyForm.suspended > 0
    /\ Call("moneyForm.confirmTransaction resumed", <<>>,
            moneyForm_confirmTransactionResumed(World))

MoneyFormRetryScanner ==
    Call("moneyForm.retryScanner", <<>>, moneyForm_retryScanner(World))

MoneyFormResetToIdle ==
    Call("moneyForm.resetToIdle", <<>>, moneyForm_resetToIdle(World))

NextForms ==
    \/ RegisterUser
    \/ FoodFormType
    \/ FoodFormSubmit
    \/ FoodFormSubmitResumed
    \/ MoneyFormStartScanner
    \/ MoneyFormScanLoop
    \/ MoneyFormConfirmTransaction
    \/ MoneyFormConfirmTransactionResumed
    \/ MoneyFormRetryScanner
    \/ MoneyFormResetToIdle

SpecForms == Init /\ [][NextForms]_vars

(***************************************************************************)
(* C39 (as claimed).  Whenever the money form is in state idle with no     *)
(* pending record id, every money donation it has created by _onQRDetected *)
(* is confirmed (its money row has status = true) or is in neither table:  *)
(* retryScanner, resetToIdle and confirmTransaction leave no unconfirmed   *)
(* master and money row behind that the form no longer tracks.             *)
(***************************************************************************)
C39_IdleFormLeavesNoPendingPair ==
    (/\ ui.moneyForm.state = "idle"
     /\ ui.moneyForm._pendingRecordId = Null) =>
        /\ \A m \in Range(money) : m.status
        /\ \A r \in Range(records) :
              r.type = "money" => \E m \in Range(money) : m.donation_id = r.id /\ m.status

(***************************************************************************)
(* C40 (as claimed).  Invocations that overlap in their loading delay:     *)
(* when an invocation of foodForm.submit has created its donation, an      *)
(* invocation that was suspended meanwhile creates none; when an           *)
(* invocation of moneyForm.confirmTransaction has gone on, one that was    *)
(* suspended meanwhile confirms nothing and raises no event; and after a   *)
(* retryScanner during the delay of confirmTransaction the suspended       *)
(* invocation confirms no donation.                                        *)
(***************************************************************************)
C40_OverlappingInvocationsActOnce ==
    /\ (last.op = "foodForm.submit resumed" /\ ui.foodForm.suspended # <<>>) =>
          LET res == foodForm_submitResumed(World)
          IN  SameTables(res.W, World) /\ res.W.events = <<>>
    /\ (last.op = "moneyForm.confirmTransaction resumed" /\ ui.moneyForm.suspended > 0) =>
          LET res == moneyForm_confirmTransactionResumed(World)
          IN  SameTables(res.W, World) /\ res.W.events = <<>>
    /\ (last.op = "moneyForm.retryScanner" /\ ui.moneyForm.suspended > 0) =>
          LET res == moneyForm_confirmTransactionResumed(World)
          IN  SameTables(res.W, World) /\ res.W.events = <<>>

====
